---- MODULE Spec2Model ----
(***************************************************************************)
(* Model of the suitability decision engine of weather_events:             *)
(*   rules/conditions.py   Condition, ConditionResult                      *)
(*   rules/engine.py       evaluate_conditions, RuleEngine                 *)
(*   models/activity.py    ActivityRequirements and the stock activities   *)
(*   models/recommendation.py  GoNoGoDecision (field validation)           *)
(*                                                                         *)
(* Python floats are IEEE-754 binary64.  The score arithmetic of           *)
(* evaluate_conditions is modelled bit-exactly: a float is kept as the     *)
(* integer number of 2^-60 units it equals, in limbs of 20 bits, and every *)
(* float operation rounds its exact result to 53 significant bits, ties to *)
(* even.                                                                   *)
(***************************************************************************)
EXTENDS Integers, Sequences, FiniteSets, TLC

VARIABLES
    cache,   \* RuleEngine._condition_cache of each engine: activity id -> <<>> | <<conditions>>
    call,    \* the operation last called, with its arguments
    ret,     \* what that call returned
    memo     \* an earlier requirements_to_conditions call and its result

vars == <<cache, call, ret, memo>>

(***************************************************************************)
(* Python values.  A value carries its dynamic type; `n` is the number (or *)
(* 0/1 of a bool), `s` the string, `items` the elements of a list.         *)
(***************************************************************************)
NoneV == [kind |-> "none", n |-> 0, s |-> "", items |-> <<>>]
Num(x) == [kind |-> "num", n |-> x, s |-> "", items |-> <<>>]
Bool(b) == [kind |-> "bool", n |-> IF b THEN 1 ELSE 0, s |-> "", items |-> <<>>]
Str(x) == [kind |-> "str", n |-> 0, s |-> x, items |-> <<>>]
List(xs) == [kind |-> "list", n |-> 0, s |-> "", items |-> xs]

IsNumeric(v) == v.kind \in {"num", "bool"}

(***************************************************************************)
(* IEEE-754 binary64 arithmetic on non-negative values.                    *)
(***************************************************************************)
LimbBits == 20
NLimbs == 4
FracLimbs == 3
MantissaBits == 53
Limb == 2^LimbBits

BigZero == <<0, 0, 0, 0>>
\* the float equal to the integer k
BigInt(k) == <<0, 0, 0, k>>

\* limb-wise a + k * b + c0 for a small integer k (negative for a subtraction),
\* the carry running from the lowest limb up
MulAdd(a, b, k, c0) ==
    LET s1 == a[1] + k * b[1] + c0
        s2 == a[2] + k * b[2] + (s1 \div Limb)
        s3 == a[3] + k * b[3] + (s2 \div Limb)
        s4 == a[4] + k * b[4] + (s3 \div Limb)
    IN  <<s1 % Limb, s2 % Limb, s3 % Limb, s4 % Limb>>

BigAdd(a, b) == MulAdd(a, b, 1, 0)
BigSub(a, b) == MulAdd(a, b, -1, 0)
BigMulSmall(a, k) == MulAdd(BigZero, a, k, 0)
BigShl1(a, bit) == MulAdd(BigZero, a, 2, bit)

\* -1, 0, 1 as a < b, a = b, a > b
BigCmp(a, b) ==
    IF a[4] # b[4] THEN (IF a[4] > b[4] THEN 1 ELSE -1)
    ELSE IF a[3] # b[3] THEN (IF a[3] > b[3] THEN 1 ELSE -1)
    ELSE IF a[2] # b[2] THEN (IF a[2] > b[2] THEN 1 ELSE -1)
    ELSE IF a[1] # b[1] THEN (IF a[1] > b[1] THEN 1 ELSE -1)
    ELSE 0

RECURSIVE IntBitLen(_)
IntBitLen(x) == IF x = 0 THEN 0 ELSE 1 + IntBitLen(x \div 2)

BitLen(a) ==
    IF a[4] # 0 THEN 3 * LimbBits + IntBitLen(a[4])
    ELSE IF a[3] # 0 THEN 2 * LimbBits + IntBitLen(a[3])
    ELSE IF a[2] # 0 THEN LimbBits + IntBitLen(a[2])
    ELSE IntBitLen(a[1])

GetBit(a, p) == (a[(p \div LimbBits) + 1] \div 2^(p % LimbBits)) % 2
Pow2Big(p) ==
    [i \in 1..NLimbs |-> IF i = (p \div LimbBits) + 1 THEN 2^(p % LimbBits) ELSE 0]
LowBits(a, p) ==
    [i \in 1..NLimbs |->
        IF i < (p \div LimbBits) + 1 THEN a[i]
        ELSE IF i = (p \div LimbBits) + 1 THEN a[i] % 2^(p % LimbBits)
        ELSE 0]

\* round-to-nearest, ties-to-even, of the exact value a (+ a non-zero rest below
\* the last unit when sticky) to MantissaBits significant bits
Round(a, sticky) ==
    LET nb == BitLen(a)
    IN  IF nb <= MantissaBits THEN a
        ELSE LET sh   == nb - MantissaBits
                 rem  == LowBits(a, sh)
                 c    == BigCmp(rem, Pow2Big(sh - 1))
                 up   == c = 1 \/ (c = 0 /\ (sticky \/ GetBit(a, sh) = 1))
                 base == BigSub(a, rem)
             IN  IF up THEN BigAdd(base, Pow2Big(sh)) ELSE base

\* float + float
FAdd(a, b) == Round(BigAdd(a, b), FALSE)
\* float * k for an integer-valued float k
FMulInt(a, k) == Round(BigMulSmall(a, k), FALSE)

\* One step of the long division: the remainder r takes the next bit of the
\* dividend, and b is subtracted when it fits.  <<quotient bit, remainder>>
DivStep(r, bit, b) ==
    LET s1 == 2 * r[1] + bit - b[1]
        s2 == 2 * r[2] - b[2] + (s1 \div Limb)
        s3 == 2 * r[3] - b[3] + (s2 \div Limb)
        s4 == 2 * r[4] - b[4] + (s3 \div Limb)
    IN  IF s4 >= 0 THEN <<1, <<s1 % Limb, s2 % Limb, s3 % Limb, s4>> >>
        ELSE <<0, BigShl1(r, bit)>>

\* the steps of the bit positions p down to stop of the dividend a; q collects
\* the quotient bits of these steps.  <<q, remainder>>
RECURSIVE DivBits(_, _, _, _, _, _)
DivBits(a, b, p, stop, q, r) ==
    IF p < stop THEN <<q, r>>
    ELSE LET step == DivStep(r, IF p >= 0 THEN GetBit(a, p) ELSE 0, b)
         IN  IF step[2][1] >= 0
             THEN DivBits(a, b, p - 1, stop, 2 * q + step[1], step[2])
             ELSE step

\* long division of a * 2^(FracLimbs * LimbBits) by b, limb l of the dividend
\* (limbs below 0 are the appended zeros) giving limb l + FracLimbs of the quotient
RECURSIVE DivLimbs(_, _, _, _, _)
DivLimbs(a, b, l, q, r) ==
    IF l < 0 - FracLimbs THEN <<q, r>>
    ELSE LET qr == DivBits(a, b, l * LimbBits + LimbBits - 1, l * LimbBits, 0, r)
             q2 == IF l + FracLimbs < NLimbs
                   THEN [q EXCEPT ![l + FracLimbs + 1] = qr[1]]
                   ELSE q
         IN  IF q2[1] >= 0 THEN DivLimbs(a, b, l - 1, q2, qr[2]) ELSE <<q2, qr[2]>>

\* float / float for b > 0 and a quotient below 2^LimbBits; the steps above
\* the highest set bit of a yield zeros and are skipped
LongDiv(a, b) ==
    LET qr == DivLimbs(a, b, (BitLen(a) + LimbBits - 1) \div LimbBits - 1,
                       BigZero, BigZero)
    IN  Round(qr[1], qr[2] # BigZero)

\* an integer quotient of two integers is exact and is not rounded
IsWhole(a) == a[1] = 0 /\ a[2] = 0 /\ a[3] = 0
FDiv(a, b) ==
    IF IsWhole(a) /\ IsWhole(b) /\ b[4] > 0 /\ a[4] % b[4] = 0
    THEN BigInt(a[4] \div b[4])
    ELSE LongDiv(a, b)

\* the float a literal of k tenths denotes (0.5, 0.7, 1.0, ...)
Tenths(k) == FDiv(BigInt(k), BigInt(10))

\* digit j of b in base 2^(LimbBits / 2), two digits to a limb
HalfLimb == 2^(LimbBits \div 2)
Digit(b, j) == (b[(j \div 2) + 1] \div HalfLimb^(j % 2)) % HalfLimb
ShrHalfLimb(a) ==
    <<(a[1] \div HalfLimb) + (a[2] % HalfLimb) * HalfLimb,
      (a[2] \div HalfLimb) + (a[3] % HalfLimb) * HalfLimb,
      (a[3] \div HalfLimb) + (a[4] % HalfLimb) * HalfLimb,
      a[4] \div HalfLimb>>

\* the exact product a * b cut below the last limb: the digits of the fraction
\* limbs of b from the lowest up, the sum moving down one digit after each;
\* sticky collects the bits that leave.  <<product, sticky>>
RECURSIVE MulDigits(_, _, _, _, _)
MulShift(a, b, j, sum, sticky) ==
    MulDigits(a, b, j + 1, ShrHalfLimb(sum), sticky \/ sum[1] % HalfLimb # 0)
MulDigits(a, b, j, acc, sticky) ==
    IF j = 2 * FracLimbs THEN <<MulAdd(acc, a, b[NLimbs], 0), sticky>>
    ELSE MulShift(a, b, j, MulAdd(acc, a, Digit(b, j), 0), sticky)

RoundProduct(p) == Round(p[1], p[2])
\* float * float for a below 2^7, b below 2^(LimbBits / 2) and a product below
\* 2^LimbBits; both operands are evaluated before their digits are taken
FMul(a, b) ==
    IF a[1] >= 0 /\ b[1] >= 0
    THEN RoundProduct(MulDigits(a, b, 0, BigZero, FALSE))
    ELSE BigZero

(***************************************************************************)
(* rules/conditions.py                                                     *)
(***************************************************************************)
ConditionType ==
    {"temperature", "feels_like", "dew_point", "humidity",
     "wind_speed", "wind_gust", "wind_direction",
     "cloud_cover", "cloud_cover_low", "cloud_cover_high",
     "precipitation_probability", "precipitation_amount",
     "visibility", "uv_index", "pressure",
     "sun_altitude", "moon_altitude", "moon_illumination",
     "is_night", "is_astronomical_night", "weather_condition"}

ComparisonOperator ==
    {"lt", "lte", "gt", "gte", "eq", "neq", "in", "not_in", "between"}

\* AstronomicalData.is_night / is_astronomical_night
is_night(astro) ==
    IF astro.sun_altitude_deg = NoneV THEN NoneV
    ELSE Bool(astro.sun_altitude_deg.n < 0)

is_astronomical_night(astro) ==
    IF astro.sun_altitude_deg = NoneV THEN NoneV
    ELSE Bool(astro.sun_altitude_deg.n < -18)

\* Condition._extract_value: the dispatch table from condition type to accessor.
\* An optional sub-record of the forecast is <<>> (absent) or <<record>>.
_extract_value(type, f) ==
    CASE type = "temperature" -> f.temperature_c
      [] type = "feels_like" -> f.feels_like_c
      [] type = "dew_point" -> f.dew_point_c
      [] type = "humidity" -> f.relative_humidity_percent
      [] type = "wind_speed" -> IF f.wind # <<>> THEN f.wind[1].speed_ms ELSE NoneV
      [] type = "wind_gust" -> IF f.wind # <<>> THEN f.wind[1].gust_ms ELSE NoneV
      [] type = "wind_direction" ->
            IF f.wind # <<>> THEN f.wind[1].direction_deg ELSE NoneV
      [] type = "cloud_cover" ->
            IF f.cloud_cover # <<>> THEN f.cloud_cover[1].total_percent ELSE NoneV
      [] type = "cloud_cover_low" ->
            IF f.cloud_cover # <<>> THEN f.cloud_cover[1].low_percent ELSE NoneV
      [] type = "cloud_cover_high" ->
            IF f.cloud_cover # <<>> THEN f.cloud_cover[1].high_percent ELSE NoneV
      [] type = "precipitation_probability" ->
            IF f.precipitation # <<>> THEN f.precipitation[1].probability_percent
            ELSE Num(0)
      [] type = "precipitation_amount" ->
            IF f.precipitation # <<>> THEN f.precipitation[1].amount_mm ELSE Num(0)
      [] type = "visibility" -> f.visibility_m
      [] type = "uv_index" -> f.uv_index
      [] type = "pressure" -> f.pressure_hpa
      [] type = "sun_altitude" ->
            IF f.astronomical # <<>> THEN f.astronomical[1].sun_altitude_deg ELSE NoneV
      [] type = "moon_altitude" ->
            IF f.astronomical # <<>> THEN f.astronomical[1].moon_altitude_deg ELSE NoneV
      [] type = "moon_illumination" ->
            IF f.astronomical # <<>> THEN f.astronomical[1].moon_illumination_percent
            ELSE NoneV
      [] type = "is_night" ->
            IF f.astronomical # <<>> THEN is_night(f.astronomical[1]) ELSE NoneV
      [] type = "is_astronomical_night" ->
            IF f.astronomical # <<>> THEN is_astronomical_night(f.astronomical[1])
            ELSE NoneV
      [] type = "weather_condition" -> f.condition
      [] OTHER -> NoneV

\* the outcome of a Python expression: a value, or the exception it raised
Returns(b) == [exc |-> "none", val |-> b]
Raises(e) == [exc |-> e, val |-> FALSE]

\* the strings of the model in Python's string order: the WeatherCondition
\* values "clear", "rain", "unknown" and their first two characters, which
\* `between` reads when the expected value is a string
StrOrder == <<"a", "c", "clear", "l", "n", "r", "rain", "u", "unknown">>
StrIndex(x) == CHOOSE i \in 1..Len(StrOrder) : StrOrder[i] = x

\* the elements e[0], e[1] Python indexing finds in the expected value e
Subscripts(e) ==
    CASE e.kind = "list" -> e.items
      [] e.kind = "str" /\ e.s = "clear" -> <<Str("c"), Str("l")>>
      [] e.kind = "str" /\ e.s = "rain" -> <<Str("r"), Str("a")>>
      [] e.kind = "str" /\ e.s = "unknown" -> <<Str("u"), Str("n")>>
      [] OTHER -> <<>>

\* Python a == e and a < e, a <= e for a scalar a
PyEq(a, e) ==
    IF IsNumeric(a) /\ IsNumeric(e) THEN a.n = e.n
    ELSE IF a.kind = "str" /\ e.kind = "str" THEN a.s = e.s
    ELSE FALSE

PyLt(a, e) ==
    IF IsNumeric(a) /\ IsNumeric(e) THEN Returns(a.n < e.n)
    ELSE IF a.kind = "str" /\ e.kind = "str"
         THEN Returns(StrIndex(a.s) < StrIndex(e.s))
    ELSE Raises("TypeError")

PyLe(a, e) ==
    IF IsNumeric(a) /\ IsNumeric(e) THEN Returns(a.n <= e.n)
    ELSE IF a.kind = "str" /\ e.kind = "str"
         THEN Returns(StrIndex(a.s) <= StrIndex(e.s))
    ELSE Raises("TypeError")

\* Python a in e (no string of the model is a proper substring of another)
PyIn(a, e) ==
    IF e.kind = "list"
    THEN Returns(\E i \in 1..Len(e.items) : PyEq(a, e.items[i]))
    ELSE IF e.kind = "str" /\ a.kind = "str" THEN Returns(a.s = e.s)
    ELSE Raises("TypeError")

PyNot(r) == IF r.exc = "none" THEN Returns(~r.val) ELSE r

\* Python e[0] <= a <= e[1]: a number has no subscript, and e[1] is read only
\* when e[0] <= a holds
PyBetween(a, e) ==
    IF e.kind \notin {"list", "str"} THEN Raises("TypeError")
    ELSE IF Len(Subscripts(e)) < 1 THEN Raises("IndexError")
    ELSE LET lo == PyLe(Subscripts(e)[1], a)
         IN  IF lo.exc # "none" \/ ~lo.val THEN lo
             ELSE IF Len(Subscripts(e)) < 2 THEN Raises("IndexError")
             ELSE PyLe(a, Subscripts(e)[2])

\* the comparisons table of Condition._compare
comparator(operator, a, e) ==
    CASE operator = "lt" -> PyLt(a, e)
      [] operator = "lte" -> PyLe(a, e)
      [] operator = "gt" -> PyLt(e, a)
      [] operator = "gte" -> PyLe(e, a)
      [] operator = "eq" -> Returns(PyEq(a, e))
      [] operator = "neq" -> Returns(~PyEq(a, e))
      [] operator = "in" -> PyIn(a, e)
      [] operator = "not_in" -> PyNot(PyIn(a, e))
      [] operator = "between" -> PyBetween(a, e)

\* try: return <comparison> / except (TypeError, IndexError): return False
TryCompare(r) == IF r.exc \in {"TypeError", "IndexError"} THEN FALSE ELSE r.val

\* _compare without its first test: the comparison is applied to None as well
_compare_none_unguarded(operator, actual, expected) ==
    IF operator \in ComparisonOperator
    THEN TryCompare(comparator(operator, actual, expected))
    ELSE FALSE

\* Condition._compare
_compare(operator, actual, expected) ==
    IF actual = NoneV THEN FALSE
    ELSE IF operator \in ComparisonOperator
         THEN TryCompare(comparator(operator, actual, expected))
    ELSE FALSE

\* the ConditionResult that Condition.evaluate builds from actual and passed
ConditionResult(cond, actual, passed) ==
    [condition_type |-> cond.type,
     passed         |-> passed,
     actual_value   |-> actual,
     expected_value |-> cond.value,
     operator       |-> cond.operator,
     message        |-> IF passed THEN <<"meets requirement">>
                        ELSE <<"does not meet">>,
     severity       |-> IF passed THEN 0 ELSE cond.severity_on_fail]

\* passed = self._compare(actual, self.value), and the result
CompareAndReport(cond, actual) ==
    ConditionResult(cond, actual, _compare(cond.operator, actual, cond.value))

\* Condition.evaluate: actual = self._extract_value(forecast), ...
evaluate(cond, forecast) ==
    CompareAndReport(cond, _extract_value(cond.type, forecast))

\* Condition(...) with the defaults of the model's fields
Condition(type, operator, value) ==
    [type |-> type, operator |-> operator, value |-> value, description |-> <<>>,
     is_required |-> TRUE, weight |-> 10, severity_on_fail |-> 5]

(***************************************************************************)
(* rules/engine.py: evaluate_conditions                                    *)
(***************************************************************************)
\* Condition.weight is a float in [0, 10]; the model keeps it in tenths
MaxWeightTenths == 100
WeightFloat == [k \in 0..MaxWeightTenths |-> Tenths(k)]

Max(a, b) == IF a >= b THEN a ELSE b

\* a partial credit that grows with the severity
PartialCredit_rising(severity) == Max(0, severity * 10)

\* partial = max(0, 100 - result.severity * 10)
PartialCredit(severity) == Max(0, 100 - severity * 10)

\* the loop body of evaluate_conditions for the result of its condition, with
\* every failure blocking, required or not
Accumulate_every_failure_blocks(acc, condition, result) ==
    [results        |-> Append(acc.results, result),
     total_weight   |-> FAdd(acc.total_weight, WeightFloat[condition.weight]),
     weighted_score |->
         FAdd(acc.weighted_score,
              FMulInt(WeightFloat[condition.weight],
                      IF result.passed THEN 100
                      ELSE PartialCredit(result.severity))),
     blocking       |->
         IF ~result.passed
         THEN Append(acc.blocking, result)
         ELSE acc.blocking]

\* the loop body of evaluate_conditions for the result of its condition:
\* weighted_score += weight * 100 when it passed, else weight * partial
Accumulate(acc, condition, result) ==
    [results        |-> Append(acc.results, result),
     total_weight   |-> FAdd(acc.total_weight, WeightFloat[condition.weight]),
     weighted_score |->
         FAdd(acc.weighted_score,
              FMulInt(WeightFloat[condition.weight],
                      IF result.passed THEN 100
                      ELSE PartialCredit(result.severity))),
     blocking       |->
         IF ~result.passed /\ condition.is_required
         THEN Append(acc.blocking, result)
         ELSE acc.blocking]

\* one iteration of the loop: result = condition.evaluate(forecast), ...
EvalStep(acc, condition, forecast) ==
    Accumulate(acc, condition, evaluate(condition, forecast))

\* for condition in conditions
RECURSIVE EvalLoop(_, _, _, _)
EvalLoop(forecast, conditions, i, acc) ==
    IF i > Len(conditions) THEN acc
    ELSE EvalLoop(forecast, conditions, i + 1,
                  EvalStep(acc, conditions[i], forecast))

\* the EvaluationResult built from what the loop has accumulated
EvaluationResult(forecast, acc) ==
    [forecast            |-> forecast,
     results             |-> acc.results,
     score               |-> IF BigCmp(acc.total_weight, BigZero) > 0
                             THEN FDiv(acc.weighted_score, acc.total_weight)
                             ELSE BigInt(100),
     passed              |-> Len(acc.blocking) = 0,
     blocking_conditions |-> acc.blocking]

\* evaluate_conditions(forecast, conditions) -> EvaluationResult
evaluate_conditions(forecast, conditions) ==
    EvaluationResult(forecast,
        EvalLoop(forecast, conditions, 1,
                 [results |-> <<>>, total_weight |-> BigZero,
                  weighted_score |-> BigZero, blocking |-> <<>>]))

(***************************************************************************)
(* rules/engine.py: RuleEngine.requirements_to_conditions                  *)
(*                                                                         *)
(* ActivityRequirements: each constraint group is <<>> (None) or <<group>>,*)
(* each numeric leaf NoneV or Num(x), each flag a BOOLEAN.  A description  *)
(* f-string is kept as <<template>> or <<template, value>>.                *)
(***************************************************************************)
\* Condition(type=..., operator=..., value=..., description=..., is_required=True,
\* severity_on_fail=...): weight keeps its default 1.0
RequiredCondition(type, operator, value, description, severity) ==
    [type |-> type, operator |-> operator, value |-> value,
     description |-> description, is_required |-> TRUE, weight |-> 10,
     severity_on_fail |-> severity]

\* an optional Condition built without weight=..., so that it keeps the default 1.0
OptionalCondition_default_weight(type, operator, value, description, severity, weight) ==
    [type |-> type, operator |-> operator, value |-> value,
     description |-> description, is_required |-> FALSE, weight |-> 10,
     severity_on_fail |-> severity]

\* Condition(..., is_required=False, severity_on_fail=..., weight=...)
OptionalCondition(type, operator, value, description, severity, weight) ==
    [type |-> type, operator |-> operator, value |-> value,
     description |-> description, is_required |-> FALSE, weight |-> weight,
     severity_on_fail |-> severity]

\* if <test>: conditions.append(c)
AppendIf(test, c) == IF test THEN <<c>> ELSE <<>>

TemperatureConditions(requirements) ==
    IF requirements.temperature = <<>> THEN <<>>
    ELSE LET temp == requirements.temperature[1]
         IN  AppendIf(temp.min_c # NoneV,
                 RequiredCondition("temperature", "gte", temp.min_c,
                     <<"Temperature at least {}C", temp.min_c>>, 8))
             \o AppendIf(temp.max_c # NoneV,
                 RequiredCondition("temperature", "lte", temp.max_c,
                     <<"Temperature at most {}C", temp.max_c>>, 8))
             \o AppendIf(temp.ideal_min_c # NoneV,
                 OptionalCondition("temperature", "gte", temp.ideal_min_c,
                     <<"Ideally above {}C", temp.ideal_min_c>>, 2, 5))
             \o AppendIf(temp.ideal_max_c # NoneV,
                 OptionalCondition("temperature", "lte", temp.ideal_max_c,
                     <<"Ideally below {}C", temp.ideal_max_c>>, 2, 5))

WindConditions(requirements) ==
    IF requirements.wind = <<>> THEN <<>>
    ELSE LET wind == requirements.wind[1]
         IN  AppendIf(wind.max_speed_ms # NoneV,
                 RequiredCondition("wind_speed", "lte", wind.max_speed_ms,
                     <<"Wind at most {} m/s", wind.max_speed_ms>>, 7))
             \o AppendIf(wind.max_gust_ms # NoneV,
                 RequiredCondition("wind_gust", "lte", wind.max_gust_ms,
                     <<"Gusts at most {} m/s", wind.max_gust_ms>>, 7))
             \o AppendIf(wind.ideal_max_speed_ms # NoneV,
                 OptionalCondition("wind_speed", "lte", wind.ideal_max_speed_ms,
                     <<"Ideally wind below {} m/s", wind.ideal_max_speed_ms>>, 2, 5))

CloudConditions(requirements) ==
    IF requirements.clouds = <<>> THEN <<>>
    ELSE LET clouds == requirements.clouds[1]
         IN  AppendIf(clouds.max_total_percent # NoneV,
                 RequiredCondition("cloud_cover", "lte", clouds.max_total_percent,
                     <<"Cloud cover at most {}%", clouds.max_total_percent>>, 8))
             \o AppendIf(clouds.ideal_max_total_percent # NoneV,
                 OptionalCondition("cloud_cover", "lte", clouds.ideal_max_total_percent,
                     <<"Ideally clouds below {}%", clouds.ideal_max_total_percent>>,
                     2, 5))

PrecipitationConditions(requirements) ==
    IF requirements.precipitation = <<>> THEN <<>>
    ELSE LET precip == requirements.precipitation[1]
         IN  AppendIf(precip.max_probability_percent # NoneV,
                 RequiredCondition("precipitation_probability", "lte",
                     precip.max_probability_percent,
                     <<"Precipitation chance at most {}%",
                       precip.max_probability_percent>>, 6))

VisibilityConditions(requirements) ==
    AppendIf(requirements.min_visibility_m # NoneV,
        RequiredCondition("visibility", "gte", requirements.min_visibility_m,
            <<"Visibility at least {}m", requirements.min_visibility_m>>, 5))

SunConditions(requirements) ==
    IF requirements.sun = <<>> THEN <<>>
    ELSE LET sun == requirements.sun[1]
         IN  AppendIf(sun.require_below_horizon,
                 RequiredCondition("sun_altitude", "lt", Num(0),
                     <<"Sun below horizon">>, 10))
             \o AppendIf(sun.require_astronomical_twilight,
                 RequiredCondition("sun_altitude", "lt", Num(-18),
                     <<"Astronomical twilight (sun below -18)">>, 10))
             \o AppendIf(sun.min_altitude_deg # NoneV,
                 RequiredCondition("sun_altitude", "gte", sun.min_altitude_deg,
                     <<"Sun at least {} above horizon", sun.min_altitude_deg>>, 10))
             \o AppendIf(sun.max_altitude_deg # NoneV,
                 RequiredCondition("sun_altitude", "lte", sun.max_altitude_deg,
                     <<"Sun at most {} above horizon", sun.max_altitude_deg>>, 10))

MoonConditions(requirements) ==
    IF requirements.moon = <<>> THEN <<>>
    ELSE LET moon == requirements.moon[1]
         IN  AppendIf(moon.max_illumination_percent # NoneV,
                 OptionalCondition("moon_illumination", "lte",
                     moon.max_illumination_percent,
                     <<"Moon illumination at most {}%",
                       moon.max_illumination_percent>>, 3, 7))
             \o AppendIf(moon.require_below_horizon,
                 OptionalCondition("moon_altitude", "lt", Num(0),
                     <<"Moon below horizon">>, 2, 5))

UVConditions(requirements) ==
    AppendIf(requirements.max_uv_index # NoneV,
        RequiredCondition("uv_index", "lte", requirements.max_uv_index,
            <<"UV index at most {}", requirements.max_uv_index>>, 6))

\* requirements_to_conditions appending to a list that outlives the call: the
\* conditions of the call before are still in it
requirements_to_conditions_shared_list(requirements) ==
    (IF call.op = "requirements_to_conditions" /\ ret # <<>> THEN ret[1] ELSE <<>>)
    \o TemperatureConditions(requirements)
    \o WindConditions(requirements)
    \o CloudConditions(requirements)
    \o PrecipitationConditions(requirements)
    \o VisibilityConditions(requirements)
    \o SunConditions(requirements)
    \o MoonConditions(requirements)
    \o UVConditions(requirements)

\* RuleEngine.requirements_to_conditions
requirements_to_conditions(requirements) ==
    TemperatureConditions(requirements)
    \o WindConditions(requirements)
    \o CloudConditions(requirements)
    \o PrecipitationConditions(requirements)
    \o VisibilityConditions(requirements)
    \o SunConditions(requirements)
    \o MoonConditions(requirements)
    \o UVConditions(requirements)

(***************************************************************************)
(* rules/engine.py: the RuleEngine methods that use the condition cache.   *)
(* Each takes the engine's cache c (activity id -> <<>> | <<conditions>>)  *)
(* and yields [cache |-> the cache afterwards, value |-> what it returns]. *)
(***************************************************************************)
\* one element of the comprehension of evaluate_forecasts
EvaluateNext(one, acc) ==
    [cache |-> one.cache, value |-> Append(acc.value, one.value)]

\* if activity.id not in self._condition_cache: self._condition_cache[...] = ...
StoreConditions(c, activity) ==
    IF c[activity.id] = <<>>
    THEN [c EXCEPT ![activity.id] =
             <<requirements_to_conditions(activity.requirements)>>]
    ELSE c

\* return self._condition_cache[activity.id]
CachedConditions(c, activity) == [cache |-> c, value |-> c[activity.id][1]]

\* RuleEngine.get_conditions_for_activity
get_conditions_for_activity(c, activity) ==
    CachedConditions(StoreConditions(c, activity), activity)

\* return evaluate_conditions(forecast, conditions)
EvaluateWith(forecast, got) ==
    [cache |-> got.cache, value |-> evaluate_conditions(forecast, got.value)]

\* RuleEngine.evaluate_forecast
evaluate_forecast(c, forecast, activity) ==
    EvaluateWith(forecast, get_conditions_for_activity(c, activity))

\* RuleEngine.evaluate_forecasts: [self.evaluate_forecast(f, activity) for f in forecasts]
RECURSIVE EvaluateEach(_, _, _, _)
EvaluateEach(forecasts, activity, i, acc) ==
    IF i > Len(forecasts) THEN acc
    ELSE EvaluateEach(forecasts, activity, i + 1,
                      EvaluateNext(evaluate_forecast(acc.cache, forecasts[i], activity),
                                   acc))

evaluate_forecasts(c, forecasts, activity) ==
    EvaluateEach(forecasts, activity, 1, [cache |-> c, value |-> <<>>])

\* [r for r in results if r.passed]
RECURSIVE FilterPassed(_)
FilterPassed(results) ==
    IF results = <<>> THEN <<>>
    ELSE IF Head(results).passed
         THEN <<Head(results)>> \o FilterPassed(Tail(results))
         ELSE FilterPassed(Tail(results))

\* an insertion that puts r in front of the elements of equal score
RECURSIVE InsertByScore_before_equals(_, _)
InsertByScore_before_equals(sorted, r) ==
    IF sorted = <<>> THEN <<r>>
    ELSE IF BigCmp(Head(sorted).score, r.score) > 0
         THEN <<Head(sorted)>> \o InsertByScore_before_equals(Tail(sorted), r)
         ELSE <<r>> \o sorted

\* list.sort(key=lambda r: r.score, reverse=True): Python's sort is stable, also
\* with reverse=True; an insertion sort that puts r behind every element whose
\* score is at least r.score
RECURSIVE InsertByScore(_, _)
InsertByScore(sorted, r) ==
    IF sorted = <<>> THEN <<r>>
    ELSE IF BigCmp(Head(sorted).score, r.score) >= 0
         THEN <<Head(sorted)>> \o InsertByScore(Tail(sorted), r)
         ELSE <<r>> \o sorted

RECURSIVE SortByScoreDesc(_, _)
SortByScoreDesc(results, sorted) ==
    IF results = <<>> THEN sorted
    ELSE SortByScoreDesc(Tail(results), InsertByScore(sorted, Head(results)))

\* if not results: return None; results.sort(...); return results[0]
BestOf(results) ==
    IF results = <<>> THEN <<>> ELSE <<SortByScoreDesc(results, <<>>)[1]>>

\* find_best_time after results = self.evaluate_forecasts(forecasts, activity)
BestAmong(all, require_passing) ==
    [cache |-> all.cache,
     value |-> BestOf(IF require_passing THEN FilterPassed(all.value)
                      ELSE all.value)]

\* RuleEngine.find_best_time; value is <<>> for None, else <<EvaluationResult>>
find_best_time(c, forecasts, activity, require_passing) ==
    BestAmong(evaluate_forecasts(c, forecasts, activity), require_passing)

\* cond_result.condition_type.value.replace("_", " ").title()
display_name(type) ==
    CASE type = "temperature" -> "Temperature"
      [] type = "feels_like" -> "Feels Like"
      [] type = "dew_point" -> "Dew Point"
      [] type = "humidity" -> "Humidity"
      [] type = "wind_speed" -> "Wind Speed"
      [] type = "wind_gust" -> "Wind Gust"
      [] type = "wind_direction" -> "Wind Direction"
      [] type = "cloud_cover" -> "Cloud Cover"
      [] type = "cloud_cover_low" -> "Cloud Cover Low"
      [] type = "cloud_cover_high" -> "Cloud Cover High"
      [] type = "precipitation_probability" -> "Precipitation Probability"
      [] type = "precipitation_amount" -> "Precipitation Amount"
      [] type = "visibility" -> "Visibility"
      [] type = "uv_index" -> "Uv Index"
      [] type = "pressure" -> "Pressure"
      [] type = "sun_altitude" -> "Sun Altitude"
      [] type = "moon_altitude" -> "Moon Altitude"
      [] type = "moon_illumination" -> "Moon Illumination"
      [] type = "is_night" -> "Is Night"
      [] type = "is_astronomical_night" -> "Is Astronomical Night"
      [] type = "weather_condition" -> "Weather Condition"

\* DecisionFactor(...): value is declared float | str and required, threshold
\* float | str | None, so pydantic raises ValidationError for value=None and for
\* a list as threshold
DecisionFactor(fields) ==
    IF fields.value = NoneV \/ fields.threshold.kind = "list" THEN [exc |-> "ValidationError"]
    ELSE [exc |-> "none"] @@ fields

\* the DecisionFactor make_decision builds for one ConditionResult
decision_factor(cond_result) ==
    DecisionFactor(
        [name          |-> cond_result.condition_type,
         display_name  |-> display_name(cond_result.condition_type),
         value         |-> cond_result.actual_value,
         threshold     |-> cond_result.expected_value,
         is_acceptable |-> cond_result.passed,
         is_ideal      |-> cond_result.passed /\ cond_result.severity = 0,
         severity      |-> IF cond_result.passed THEN "good"
                           ELSE IF cond_result.severity >= 8 THEN "critical"
                           ELSE "warning",
         notes         |-> cond_result.message])

\* the number of results whose actual_value is not None
RECURSIVE CountNonNone(_)
CountNonNone(results) ==
    IF results = <<>> THEN 0
    ELSE (IF Head(results).actual_value # NoneV THEN 1 ELSE 0)
         + CountNonNone(Tail(results))

\* GoNoGoDecision(...): pydantic validates confidence (ge=0, le=1) and score
\* (ge=0, le=100) and raises ValidationError when a bound is broken
GoNoGoDecision(fields) ==
    IF /\ BigCmp(fields.confidence, BigInt(1)) <= 0
       /\ BigCmp(fields.score, BigInt(100)) <= 0
    THEN [exc |-> "none"] @@ fields
    ELSE [exc |-> "ValidationError"]

\* the types of the blocking conditions: [b.condition_type.value for b in ...]
BlockingNames(result) ==
    [i \in 1..Len(result.blocking_conditions) |->
        result.blocking_conditions[i].condition_type]

\* make_decision after its loop over result.results: the decision, the
\* confidence and the GoNoGoDecision it returns
Decide(forecast, activity, result, factors) ==
    IF \E i \in 1..Len(factors) : factors[i].exc # "none"
    THEN [exc |-> "ValidationError"]
    ELSE GoNoGoDecision(
        [decision         |-> IF result.passed
                              THEN IF BigCmp(result.score, BigInt(80)) >= 0
                                   THEN "GO" ELSE "MARGINAL"
                              ELSE "NO_GO",
         confidence       |-> IF result.results # <<>>
                              THEN FDiv(BigInt(CountNonNone(result.results)),
                                        BigInt(Len(result.results)))
                              ELSE Tenths(5),
         score            |-> result.score,
         factors          |-> factors,
         blocking_factors |-> BlockingNames(result),
         summary          |->
            IF result.passed
            THEN IF BigCmp(result.score, BigInt(80)) >= 0
                 THEN <<"Conditions are favorable for", activity.name>>
                 ELSE <<"Conditions are acceptable but not ideal for",
                        activity.name>>
            ELSE <<"Conditions not suitable:">> \o BlockingNames(result),
         recommendations  |-> [i \in 1..Len(result.blocking_conditions) |->
                                  <<"Check", result.blocking_conditions[i].condition_type>>
                                  \o result.blocking_conditions[i].message],
         valid_for        |-> forecast.time])

\* make_decision after result = self.evaluate_forecast(forecast, activity)
DecideOn(forecast, activity, ev) ==
    [cache |-> ev.cache,
     value |-> Decide(forecast, activity, ev.value,
                      [i \in 1..Len(ev.value.results) |->
                          decision_factor(ev.value.results[i])])]

\* RuleEngine.make_decision
make_decision(c, forecast, activity) ==
    DecideOn(forecast, activity, evaluate_forecast(c, forecast, activity))

(***************************************************************************)
(* recommendations/go_no_go.py: WeightedFactor and GoNoGoEvaluator.  A     *)
(* Severity is the string of its enum value; a float that is an integer is *)
(* kept as that integer until it enters the score.                         *)
(***************************************************************************)
DecisionWeight ==
    [CRITICAL |-> 10, HIGH |-> 7, MEDIUM |-> 5, LOW |-> 3, MINIMAL |-> 1]

\* WeightedFactor(name=..., display_name=..., weight=..., threshold=...,
\* threshold_type=..., is_blocking=...): range_min, range_max and unit default
WeightedFactor(name, display, weight, threshold, threshold_type, is_blocking) ==
    [name |-> name, display_name |-> display, weight |-> weight,
     threshold |-> threshold, threshold_type |-> threshold_type,
     range_min |-> NoneV, range_max |-> NoneV, unit |-> "",
     is_blocking |-> is_blocking]

\* WeightedFactor.evaluate, a value that is not None against the threshold
MeetsThreshold(factor, value) ==
    IF factor.threshold_type = "max" /\ factor.threshold # NoneV
    THEN value.n <= factor.threshold.n
    ELSE IF factor.threshold_type = "min" /\ factor.threshold # NoneV
    THEN value.n >= factor.threshold.n
    ELSE IF factor.threshold_type = "range"
    THEN /\ factor.range_min # NoneV => value.n >= factor.range_min.n
         /\ factor.range_max # NoneV => value.n <= factor.range_max.n
    ELSE TRUE

\* WeightedFactor.evaluate(value) -> (passed, severity)
WeightedFactor_evaluate(factor, value) ==
    IF value = NoneV THEN [passed |-> TRUE, severity |-> "info"]
    ELSE IF MeetsThreshold(factor, value)
    THEN [passed |-> TRUE, severity |-> "good"]
    ELSE IF factor.is_blocking THEN [passed |-> FALSE, severity |-> "critical"]
    ELSE IF factor.weight = DecisionWeight.CRITICAL
    THEN [passed |-> FALSE, severity |-> "critical"]
    ELSE IF factor.weight = DecisionWeight.HIGH
    THEN [passed |-> FALSE, severity |-> "warning"]
    ELSE [passed |-> FALSE, severity |-> "caution"]

\* GoNoGoEvaluator._extract_values
_extract_values(f) ==
    [temperature |-> f.temperature_c,
     feels_like  |-> f.feels_like_c,
     humidity    |-> f.relative_humidity_percent,
     wind_speed  |-> IF f.wind # <<>> THEN f.wind[1].speed_ms ELSE NoneV,
     wind_gust   |-> IF f.wind # <<>> THEN f.wind[1].gust_ms ELSE NoneV,
     cloud_cover |-> IF f.cloud_cover # <<>> THEN f.cloud_cover[1].total_percent
                     ELSE NoneV,
     precipitation_probability |->
         IF f.precipitation # <<>> THEN f.precipitation[1].probability_percent
         ELSE Num(0),
     visibility  |-> f.visibility_m,
     uv_index    |-> f.uv_index]

\* AstronomyGoNoGoEvaluator._extract_values
Astronomy_extract_values(f) ==
    _extract_values(f) @@
    [moon_illumination |-> IF f.astronomical # <<>>
                           THEN f.astronomical[1].moon_illumination_percent
                           ELSE NoneV,
     sun_altitude      |-> IF f.astronomical # <<>>
                           THEN f.astronomical[1].sun_altitude_deg
                           ELSE NoneV]

\* self._extract_values(forecast) of the evaluator's class
ExtractValues(evaluator, f) ==
    IF evaluator.class = "AstronomyGoNoGoEvaluator"
    THEN Astronomy_extract_values(f)
    ELSE _extract_values(f)

\* values.get(factor.name)
Get(values, name) == IF name \in DOMAIN values THEN values[name] ELSE NoneV

\* the failures that block: with the is_blocking flag only
Blocks_flag_only(factor, passed) == ~passed /\ factor.is_blocking

\* if factor.is_blocking or factor.weight == DecisionWeight.CRITICAL, for a
\* factor that did not pass
Blocks(factor, passed) ==
    ~passed /\ (factor.is_blocking \/ factor.weight = DecisionWeight.CRITICAL)

\* what a factor adds to weighted_score: factor.weight.value * 100 when it
\* passed and nothing otherwise
Credit(factor, passed) ==
    IF passed THEN FMulInt(BigInt(factor.weight), 100) ELSE BigZero

\* the loop body of GoNoGoEvaluator.evaluate after factor.evaluate(value)
GoAccumulate(acc, factor, value, outcome) ==
    [decision_factors |->
        Append(acc.decision_factors,
               DecisionFactor(
                   [name          |-> factor.name,
                    display_name  |-> factor.display_name,
                    value         |-> IF value # NoneV THEN value ELSE Str("N/A"),
                    unit          |-> factor.unit,
                    threshold     |-> factor.threshold,
                    is_acceptable |-> outcome.passed,
                    is_ideal      |-> outcome.passed /\ outcome.severity = "good",
                    weight        |-> factor.weight,
                    severity      |-> outcome.severity])),
     total_weight     |-> FAdd(acc.total_weight, BigInt(factor.weight)),
     weighted_score   |->
        FAdd(acc.weighted_score, Credit(factor, outcome.passed)),
     blocking_factors |->
        IF Blocks(factor, outcome.passed)
        THEN Append(acc.blocking_factors, factor.display_name)
        ELSE acc.blocking_factors]

\* one iteration: value = values.get(factor.name), factor.evaluate(value), ...
GoStep(acc, factor, value) ==
    GoAccumulate(acc, factor, value, WeightedFactor_evaluate(factor, value))

\* for factor in self.factors
RECURSIVE GoLoop(_, _, _, _)
GoLoop(factors, values, i, acc) ==
    IF i > Len(factors) THEN acc
    ELSE GoLoop(factors, values, i + 1,
                GoStep(acc, factors[i], Get(values, factors[i].name)))

\* the recommendation lines: one for each factor that is not acceptable
RECURSIVE Monitor(_)
Monitor(decision_factors) ==
    IF decision_factors = <<>> THEN <<>>
    ELSE (IF Head(decision_factors).is_acceptable THEN <<>>
          ELSE <<<<"Monitor", Head(decision_factors).display_name,
                   Head(decision_factors).value, Head(decision_factors).unit>>>>)
         \o Monitor(Tail(decision_factors))

\* GoNoGoEvaluator.evaluate from the score on
GoDecide(forecast, acc, score) ==
    GoNoGoDecision(
        [decision         |-> IF acc.blocking_factors # <<>> THEN "NO_GO"
                              ELSE IF BigCmp(score, BigInt(70)) >= 0 THEN "GO"
                              ELSE IF BigCmp(score, BigInt(50)) >= 0 THEN "MARGINAL"
                              ELSE "NO_GO",
         confidence       |-> Tenths(8),
         score            |-> score,
         factors          |-> acc.decision_factors,
         blocking_factors |-> acc.blocking_factors,
         summary          |->
            IF acc.blocking_factors # <<>>
            THEN <<"Blocked by:">> \o acc.blocking_factors
            ELSE IF BigCmp(score, BigInt(70)) >= 0
            THEN <<"Conditions are favorable">>
            ELSE IF BigCmp(score, BigInt(50)) >= 0
            THEN <<"Conditions are acceptable but not ideal">>
            ELSE <<"Multiple factors below acceptable thresholds">>,
         recommendations  |-> Monitor(acc.decision_factors),
         valid_for        |-> forecast.time])

\* score = weighted_score / total_weight if total_weight > 0 else 0
GoScore(forecast, acc) ==
    GoDecide(forecast, acc,
             IF BigCmp(acc.total_weight, BigZero) > 0
             THEN FDiv(acc.weighted_score, acc.total_weight)
             ELSE BigZero)

\* GoNoGoEvaluator.evaluate(forecast) -> GoNoGoDecision
GoNoGoEvaluator_evaluate(evaluator, forecast) ==
    GoScore(forecast,
        GoLoop(evaluator.factors, ExtractValues(evaluator, forecast), 1,
               [decision_factors |-> <<>>, total_weight |-> BigZero,
                weighted_score |-> BigZero, blocking_factors |-> <<>>]))

\* WeightedFactor(..., unit=...)
WithUnit(factor, unit) == [factor EXCEPT !.unit = unit]

\* GoNoGoEvaluator(factors)
GoNoGoEvaluator(factors) == [class |-> "GoNoGoEvaluator", factors |-> factors]

\* AstronomyGoNoGoEvaluator(max_moon_illumination=...), the other thresholds
\* at their defaults
AstronomyGoNoGoEvaluator(max_moon_illumination) ==
    [class   |-> "AstronomyGoNoGoEvaluator",
     factors |->
        <<WithUnit(WeightedFactor("cloud_cover", "Cloud Cover", DecisionWeight.CRITICAL,
                         Num(30), "max", TRUE), "%"),
          WithUnit(WeightedFactor("precipitation_probability", "Precipitation Chance",
                         DecisionWeight.CRITICAL, Num(20), "max", TRUE), "%"),
          WithUnit(WeightedFactor("wind_speed", "Wind Speed", DecisionWeight.HIGH,
                         Num(8), "max", FALSE), " m/s"),
          WithUnit(WeightedFactor("wind_gust", "Wind Gusts", DecisionWeight.MEDIUM,
                         Num(12), "max", FALSE), " m/s"),
          WithUnit(WeightedFactor("temperature", "Temperature", DecisionWeight.MEDIUM,
                         Num(-10), "min", FALSE), "C")>>
        \o (IF max_moon_illumination # NoneV
            THEN <<WithUnit(WeightedFactor("moon_illumination", "Moon Illumination",
                                  DecisionWeight.LOW, max_moon_illumination,
                                  "max", FALSE), "%")>>
            ELSE <<>>)]

(***************************************************************************)
(* recommendations/gear.py and the gear models of models/recommendation.py.*)
(* A dict is a function on its keys.  The conditions summary keeps the     *)
(* values its parts are formatted from.                                    *)
(***************************************************************************)
\* GearItem(name=..., category=...)
GearItem(name, category) ==
    [name |-> name, category |-> category, description |-> NoneV,
     priority |-> 1, conditions |-> <<>>]

\* GearRule(item=...): every other field at its default
GearRule(item) ==
    [item |-> item, min_temp_c |-> NoneV, max_temp_c |-> NoneV,
     min_feels_like_c |-> NoneV, max_feels_like_c |-> NoneV,
     min_wind_ms |-> NoneV, max_precipitation_percent |-> NoneV,
     requires_rain |-> FALSE, requires_night |-> FALSE,
     priority |-> 5, exclusive |-> TRUE, description |-> NoneV]

\* bool(x) of an optional number: None and 0 are false
Truthy(v) == v # NoneV /\ v.n # 0

\* feels_like = forecast.feels_like_c or temp
FeelsLikeOr(f) == IF Truthy(f.feels_like_c) THEN f.feels_like_c ELSE f.temperature_c

\* wind_speed = forecast.wind.speed_ms if forecast.wind else 0
WindSpeedOr0(f) == IF f.wind # <<>> THEN f.wind[1].speed_ms.n ELSE 0

\* precip_prob = 0.0, replaced by the probability when forecast.precipitation
PrecipProb(f) ==
    IF f.precipitation # <<>> THEN f.precipitation[1].probability_percent.n ELSE 0

\* GearRule.matches(forecast) -> bool
matches(rule, f) ==
    IF rule.min_temp_c # NoneV /\ f.temperature_c.n < rule.min_temp_c.n THEN FALSE
    ELSE IF rule.max_temp_c # NoneV /\ f.temperature_c.n > rule.max_temp_c.n
    THEN FALSE
    ELSE IF rule.min_feels_like_c # NoneV /\ FeelsLikeOr(f).n < rule.min_feels_like_c.n
    THEN FALSE
    ELSE IF rule.max_feels_like_c # NoneV /\ FeelsLikeOr(f).n > rule.max_feels_like_c.n
    THEN FALSE
    ELSE IF rule.min_wind_ms # NoneV /\ WindSpeedOr0(f) < rule.min_wind_ms.n
    THEN FALSE
    ELSE IF /\ rule.max_precipitation_percent # NoneV
            /\ PrecipProb(f) > rule.max_precipitation_percent.n
    THEN FALSE
    ELSE IF rule.requires_rain /\ PrecipProb(f) < 30 THEN FALSE
    ELSE IF /\ rule.requires_night
            /\ f.astronomical # <<>>
            /\ is_night(f.astronomical[1]) = Bool(FALSE)
    THEN FALSE
    ELSE TRUE

\* matching_rules = [r for r in self.rules if r.matches(forecast)]
RECURSIVE MatchingRules(_, _)
MatchingRules(rules, f) ==
    IF rules = <<>> THEN <<>>
    ELSE (IF matches(Head(rules), f) THEN <<Head(rules)>> ELSE <<>>)
         \o MatchingRules(Tail(rules), f)

\* list.sort(key=lambda r: r.priority): stable, ascending
RECURSIVE InsertByPriority(_, _)
InsertByPriority(sorted, r) ==
    IF sorted = <<>> THEN <<r>>
    ELSE IF Head(sorted).priority <= r.priority
         THEN <<Head(sorted)>> \o InsertByPriority(Tail(sorted), r)
         ELSE <<r>> \o sorted

RECURSIVE SortByPriority(_, _)
SortByPriority(rules, sorted) ==
    IF rules = <<>> THEN sorted
    ELSE SortByPriority(Tail(rules), InsertByPriority(sorted, Head(rules)))

\* for rule in matching_rules: skip an exclusive rule whose category is
\* used, else items.append(rule.item) and used_categories.add(category)
RECURSIVE ApplyExclusivity(_, _, _)
ApplyExclusivity(rules, items, used_categories) ==
    IF rules = <<>> THEN items
    ELSE IF Head(rules).exclusive /\ Head(rules).item.category \in used_categories
    THEN ApplyExclusivity(Tail(rules), items, used_categories)
    ELSE ApplyExclusivity(Tail(rules), Append(items, Head(rules).item),
                          used_categories \cup {Head(rules).item.category})

\* _build_conditions_summary(forecast)
_build_conditions_summary(f) ==
    <<<<"temperature", f.temperature_c.n>>>>
    \o (IF /\ Truthy(f.feels_like_c)
           /\ \/ f.feels_like_c.n - f.temperature_c.n > 2
              \/ f.temperature_c.n - f.feels_like_c.n > 2
        THEN <<<<"feels like", f.feels_like_c.n>>>> ELSE <<>>)
    \o (IF f.wind # <<>> THEN <<<<"wind", f.wind[1].speed_ms.n>>>> ELSE <<>>)
    \o (IF f.precipitation # <<>> /\ f.precipitation[1].probability_percent.n > 10
        THEN <<<<"chance of rain", f.precipitation[1].probability_percent.n>>>>
        ELSE <<>>)

\* GearRecommendation(activity=..., conditions_summary=..., items=items, ...):
\* pydantic validates items into a list of its own, by_category and notes
\* start empty
GearRecommendation(activity, f, items) ==
    [activity              |-> activity,
     conditions_summary    |-> _build_conditions_summary(f),
     items                 |-> items,
     by_category           |-> <<>>,
     temperature_c         |-> f.temperature_c,
     feels_like_c          |-> f.feels_like_c,
     wind_speed_ms         |-> IF f.wind # <<>> THEN f.wind[1].speed_ms ELSE NoneV,
     precipitation_percent |-> IF f.precipitation # <<>>
                               THEN f.precipitation[1].probability_percent
                               ELSE NoneV,
     notes                 |-> <<>>]

\* GearRecommendation.add_item
add_item(recommendation, item) ==
    [recommendation EXCEPT
        !.items = Append(@, item),
        !.by_category =
            IF item.category \in DOMAIN @
            THEN [@ EXCEPT ![item.category] = Append(@, item)]
            ELSE (item.category :> <<item>>) @@ @]

\* for item in items: recommendation.add_item(item)
RECURSIVE AddItems(_, _)
AddItems(recommendation, items) ==
    IF items = <<>> THEN recommendation
    ELSE AddItems(add_item(recommendation, Head(items)), Tail(items))

\* the notes appended for rain, wind and UV
AddNotes(recommendation, f) ==
    [recommendation EXCEPT
        !.notes =
            (IF f.precipitation # <<>> /\ f.precipitation[1].probability_percent.n > 50
             THEN <<"High chance of rain">> ELSE <<>>)
            \o (IF f.wind # <<>> /\ f.wind[1].speed_ms.n > 8
                THEN <<"Windy conditions">> ELSE <<>>)
            \o (IF Truthy(f.uv_index) /\ f.uv_index.n > 6
                THEN <<"High UV">> ELSE <<>>)]

\* recommend from the construction of the GearRecommendation on
Recommendation(activity, f, items) ==
    AddNotes(AddItems(GearRecommendation(activity, f, items), items), f)

\* GearRecommender.recommend(forecast, activity) -> GearRecommendation
recommend(recommender, f, activity) ==
    Recommendation(IF activity # "" THEN activity ELSE recommender.activity, f,
        ApplyExclusivity(SortByPriority(MatchingRules(recommender.rules, f), <<>>),
                         <<>>, {}))

\* GearRecommender(rules=...)
GearRecommender(rules) == [rules |-> rules, activity |-> "general"]

(***************************************************************************)
(* recommendations/time_slots.py and the slot models of                    *)
(* models/recommendation.py.  A datetime is its hour number, a timedelta   *)
(* its number of minutes; an Optional float is <<>> or <<float>>.          *)
(***************************************************************************)
\* timedelta(hours=1)
HourDelta == 60

\* td.total_seconds() / 3600
TotalHours(td) == FDiv(BigInt(td * 60), BigInt(3600))

\* int(min_duration.total_seconds() / 3600): int() cuts the fraction off
MinHours(min_duration) == (min_duration * 60) \div 3600

\* TimeSlot(start=..., end=..., score=..., ...): is_optimal at its default
TimeSlot(start, end, score, avg_temp, avg_cloud, max_precip, avg_wind, notes) ==
    [start |-> start, end |-> end, score |-> score, is_optimal |-> FALSE,
     avg_temperature_c |-> avg_temp, avg_cloud_cover_percent |-> avg_cloud,
     max_precipitation_percent |-> max_precip, avg_wind_speed_ms |-> avg_wind,
     advantages |-> notes.advantages, disadvantages |-> notes.disadvantages]

\* TimeSlot.duration
TimeSlot_duration(slot) == (slot.end - slot.start) * HourDelta

\* TimeSlotRecommendation(activity=..., search_start=..., search_end=...):
\* every other field at its default
TimeSlotRecommendation(activity, search_start, search_end) ==
    [activity |-> activity, search_start |-> search_start,
     search_end |-> search_end, slots |-> <<>>, optimal_slot |-> <<>>,
     no_suitable_slots |-> FALSE, no_slots_reason |-> NoneV,
     min_duration_required |-> <<>>]

SlotCandidate(start_idx, end_idx, forecasts, results) ==
    [start_idx |-> start_idx, end_idx |-> end_idx, forecasts |-> forecasts,
     results |-> results]

start_time(candidate) == candidate.forecasts[1].time
end_time(candidate) == candidate.forecasts[Len(candidate.forecasts)].time + 1
duration(candidate) == (end_time(candidate) - start_time(candidate)) * HourDelta

\* sum(r.score for r in self.results)
RECURSIVE SumScores(_, _, _)
SumScores(results, i, total) ==
    IF i > Len(results) THEN total
    ELSE SumScores(results, i + 1, FAdd(total, results[i].score))

avg_score(candidate) ==
    IF candidate.results = <<>> THEN BigZero
    ELSE FDiv(SumScores(candidate.results, 1, BigZero),
              BigInt(Len(candidate.results)))

\* the inner loop of _find_contiguous_slots: the last index the block that
\* holds end_idx reaches (indices count from 0)
RECURSIVE Extend(_, _, _)
Extend(results, require_passing, end_idx) ==
    IF end_idx < Len(results) - 1
       /\ ~(require_passing /\ ~results[end_idx + 2].passed)
    THEN Extend(results, require_passing, end_idx + 1)
    ELSE end_idx

\* a block is taken only when it is longer than min_hours
AppendBlock_longer_only(candidates, forecasts, results, min_hours, start_idx, end_idx) ==
    IF end_idx - start_idx + 1 > min_hours
    THEN Append(candidates,
                SlotCandidate(start_idx, end_idx,
                              SubSeq(forecasts, start_idx + 1, end_idx + 1),
                              SubSeq(results, start_idx + 1, end_idx + 1)))
    ELSE candidates

\* if num_hours >= min_hours: candidates.append(SlotCandidate(...))
AppendBlock(candidates, forecasts, results, min_hours, start_idx, end_idx) ==
    IF end_idx - start_idx + 1 >= min_hours
    THEN Append(candidates,
                SlotCandidate(start_idx, end_idx,
                              SubSeq(forecasts, start_idx + 1, end_idx + 1),
                              SubSeq(results, start_idx + 1, end_idx + 1)))
    ELSE candidates

\* the outer loop of _find_contiguous_slots from index i on
RECURSIVE FindFrom(_, _, _, _, _, _)
FindBlock(forecasts, results, min_hours, require_passing, i, candidates, end_idx) ==
    FindFrom(forecasts, results, min_hours, require_passing, end_idx + 1,
             AppendBlock(candidates, forecasts, results, min_hours, i, end_idx))
FindFrom(forecasts, results, min_hours, require_passing, i, candidates) ==
    IF i >= Len(forecasts) THEN candidates
    ELSE IF ~require_passing \/ results[i + 1].passed
         THEN FindBlock(forecasts, results, min_hours, require_passing, i,
                        candidates, Extend(results, require_passing, i))
         ELSE FindFrom(forecasts, results, min_hours, require_passing, i + 1,
                       candidates)

_find_contiguous_slots(forecasts, results, min_duration, require_passing) ==
    FindFrom(forecasts, results, MinHours(min_duration), require_passing, 0, <<>>)

FMin(a, b) == IF BigCmp(b, a) < 0 THEN b ELSE a
FMax(a, b) == IF BigCmp(b, a) > 0 THEN b ELSE a

\* a factor without the bonus of 1.1 for a slot of the preferred duration or more
duration_factor_no_bonus(duration_hours, preferred_hours) ==
    IF BigCmp(duration_hours, preferred_hours) >= 0
    THEN FMin(BigInt(1), FDiv(preferred_hours, duration_hours))
    ELSE FDiv(duration_hours, preferred_hours)

\* min(1.0, preferred_hours / duration_hours) * 1.1 for a slot of the preferred
\* duration or more, duration_hours / preferred_hours for a shorter one
duration_factor(duration_hours, preferred_hours) ==
    IF BigCmp(duration_hours, preferred_hours) >= 0
    THEN FMul(FMin(BigInt(1), FDiv(preferred_hours, duration_hours)), Tenths(11))
    ELSE FDiv(duration_hours, preferred_hours)

\* final_score = base_score * duration_factor
final_score(candidate, preferred_hours) ==
    FMul(avg_score(candidate),
         duration_factor(TotalHours(duration(candidate)), preferred_hours))

\* min(100, max(0, final_score))
Clamp(score) == FMin(BigInt(100), FMax(BigZero, score))

\* [f.cloud_cover.total_percent for f in candidate.forecasts if f.cloud_cover]
\* and the like: part(f) is <<>> or <<value>>
RECURSIVE Concat(_)
Concat(parts) ==
    IF parts = <<>> THEN <<>> ELSE Head(parts) \o Concat(Tail(parts))
Collect(forecasts, part(_)) ==
    Concat([i \in 1..Len(forecasts) |-> part(forecasts[i])])

Temperature(f) == <<f.temperature_c.n>>
CloudTotal(f) ==
    IF f.cloud_cover = <<>> THEN <<>> ELSE <<f.cloud_cover[1].total_percent.n>>
PrecipProbability(f) ==
    IF f.precipitation = <<>> THEN <<>>
    ELSE <<f.precipitation[1].probability_percent.n>>
WindSpeed(f) == IF f.wind = <<>> THEN <<>> ELSE <<f.wind[1].speed_ms.n>>

RECURSIVE SumOf(_)
SumOf(values) == IF values = <<>> THEN 0 ELSE Head(values) + SumOf(Tail(values))
RECURSIVE MaxOf(_)
MaxOf(values) ==
    IF Len(values) = 1 THEN Head(values)
    ELSE Max(Head(values), MaxOf(Tail(values)))

\* sum(values) / len(values) if values else None; the values are floats that
\* are integers, so is their sum
Average(values) ==
    IF values = <<>> THEN <<>>
    ELSE <<FDiv(BigInt(SumOf(values)), BigInt(Len(values)))>>

\* max(precips) if precips else 0
MaxOr0(values) == IF values = <<>> THEN 0 ELSE MaxOf(values)

Below(avg, k) == avg # <<>> /\ BigCmp(avg[1], BigInt(k)) < 0
Above(avg, k) == avg # <<>> /\ BigCmp(avg[1], BigInt(k)) > 0

\* the advantages and disadvantages of a slot, in the order they are appended
Notes(avg_temp, avg_cloud, max_precip, avg_wind) ==
    [advantages |->
        (IF avg_temp # <<>> /\ ~Below(avg_temp, 15) /\ ~Above(avg_temp, 25)
         THEN <<"Comfortable temperature">> ELSE <<>>)
        \o (IF Below(avg_cloud, 20) THEN <<"Clear skies">> ELSE <<>>)
        \o (IF max_precip < 10 THEN <<"Low precipitation chance">> ELSE <<>>)
        \o (IF Below(avg_wind, 3) THEN <<"Calm conditions">> ELSE <<>>),
     disadvantages |->
        (IF Below(avg_temp, 5) THEN <<"Cold conditions">>
         ELSE IF Above(avg_temp, 30) THEN <<"Hot conditions">> ELSE <<>>)
        \o (IF ~Below(avg_cloud, 20) /\ Above(avg_cloud, 70)
            THEN <<"Cloudy conditions">> ELSE <<>>)
        \o (IF max_precip >= 10 /\ max_precip > 50
            THEN <<"Significant precipitation risk">> ELSE <<>>)
        \o (IF ~Below(avg_wind, 3) /\ Above(avg_wind, 8)
            THEN <<"Windy conditions">> ELSE <<>>)]

\* the TimeSlot of a candidate from its score and its summary values
Summarised(candidate, score, avg_temp, avg_cloud, max_precip, avg_wind) ==
    TimeSlot(start_time(candidate), end_time(candidate), score,
             avg_temp, avg_cloud, max_precip, avg_wind,
             Notes(avg_temp, avg_cloud, max_precip, avg_wind))

\* the body of the loop of _score_candidates
ScoreCandidate(candidate, preferred_hours) ==
    Summarised(candidate, Clamp(final_score(candidate, preferred_hours)),
               Average(Collect(candidate.forecasts, Temperature)),
               Average(Collect(candidate.forecasts, CloudTotal)),
               MaxOr0(Collect(candidate.forecasts, PrecipProbability)),
               Average(Collect(candidate.forecasts, WindSpeed)))

RECURSIVE ScoreEach(_, _, _, _)
ScoreEach(candidates, preferred_hours, i, slots) ==
    IF i > Len(candidates) THEN slots
    ELSE ScoreEach(candidates, preferred_hours, i + 1,
                   Append(slots, ScoreCandidate(candidates[i], preferred_hours)))

_score_candidates(candidates, preferred_duration) ==
    ScoreEach(candidates, TotalHours(preferred_duration), 1, <<>>)

\* an insertion that puts the slot in front of the slots of a lower or equal
\* score only when the list is to ascend
RECURSIVE InsertSlot_ascending(_, _)
InsertSlot_ascending(sorted, slot) ==
    IF sorted = <<>> THEN <<slot>>
    ELSE IF BigCmp(Head(sorted).score, slot.score) <= 0
         THEN <<Head(sorted)>> \o InsertSlot_ascending(Tail(sorted), slot)
         ELSE <<slot>> \o sorted

\* scored_slots.sort(key=lambda s: s.score, reverse=True), a stable sort: the
\* slot goes behind every slot whose score is at least its own
RECURSIVE InsertSlot(_, _)
InsertSlot(sorted, slot) ==
    IF sorted = <<>> THEN <<slot>>
    ELSE IF BigCmp(Head(sorted).score, slot.score) >= 0
         THEN <<Head(sorted)>> \o InsertSlot(Tail(sorted), slot)
         ELSE <<slot>> \o sorted

RECURSIVE SortSlots(_, _)
SortSlots(slots, sorted) ==
    IF slots = <<>> THEN sorted
    ELSE SortSlots(Tail(slots), InsertSlot(sorted, Head(slots)))

\* scored_slots[:max_slots]; a negative max_slots counts from the end
TopSlots(scored_slots, max_slots) ==
    IF max_slots >= 0
    THEN SubSeq(scored_slots, 1,
                IF max_slots < Len(scored_slots) THEN max_slots
                ELSE Len(scored_slots))
    ELSE SubSeq(scored_slots, 1, Len(scored_slots) + max_slots)

\* if top_slots: top_slots[0].is_optimal = True
MarkOptimal(top_slots) ==
    IF top_slots = <<>> THEN top_slots
    ELSE [top_slots EXCEPT ![1].is_optimal = TRUE]

\* the TimeSlotRecommendation of the marked top slots
Ranked(activity, hourly, min_duration, top_slots) ==
    [TimeSlotRecommendation(activity.name, hourly[1].time,
                            hourly[Len(hourly)].time + 1) EXCEPT
        !.slots = top_slots,
        !.optimal_slot = IF top_slots = <<>> THEN <<>> ELSE <<top_slots[1]>>,
        !.min_duration_required = <<min_duration>>]

\* find_slots from the candidates on
FromCandidates(activity, hourly, candidates, min_duration, preferred_duration, max_slots) ==
    IF candidates = <<>>
    THEN [TimeSlotRecommendation(activity.name, hourly[1].time,
                                 hourly[Len(hourly)].time + 1) EXCEPT
             !.no_suitable_slots = TRUE,
             !.no_slots_reason = Str("No time slots meet the requirements"),
             !.min_duration_required = <<min_duration>>]
    ELSE Ranked(activity, hourly, min_duration,
                MarkOptimal(TopSlots(
                    SortSlots(_score_candidates(candidates, preferred_duration),
                              <<>>),
                    max_slots)))

\* find_slots after results = self.engine.evaluate_forecasts(...)
FromResults(all, activity, hourly, min_duration, preferred_duration, max_slots, require_passing) ==
    [cache |-> all.cache,
     value |-> FromCandidates(activity, hourly,
                   _find_contiguous_slots(hourly, all.value, min_duration,
                                          require_passing),
                   min_duration, preferred_duration, max_slots)]

\* TimeSlotFinder.find_slots on the engine cache c, the clock reading now
find_slots(c, now, forecast, activity, min_duration, preferred_duration, max_slots, require_passing) ==
    IF forecast.hourly = <<>>
    THEN [cache |-> c,
          value |-> [TimeSlotRecommendation(activity.name, now, now) EXCEPT
                        !.no_suitable_slots = TRUE,
                        !.no_slots_reason = Str("No forecast data available")]]
    ELSE FromResults(evaluate_forecasts(c, forecast.hourly, activity), activity,
                     forecast.hourly, min_duration, preferred_duration,
                     max_slots, require_passing)

(***************************************************************************)
(* models/weather.py: the forecast of one hour.  An optional sub-record is *)
(* <<>> when the forecast lacks it and <<record>> when it is present.      *)
(***************************************************************************)
Wind(speed, gust) ==
    [speed_ms |-> Num(speed), gust_ms |-> gust, direction_deg |-> NoneV]

CloudCover(total, high) ==
    [total_percent |-> Num(total), low_percent |-> NoneV, high_percent |-> high]

Precipitation(probability, amount) ==
    [probability_percent |-> Num(probability), amount_mm |-> amount]

AstronomicalData(sun, moon, illumination) ==
    [sun_altitude_deg |-> sun, moon_altitude_deg |-> moon,
     moon_illumination_percent |-> illumination]

\* HourlyForecast(time=..., temperature_c=...): every other field at its default
HourlyForecast(time, temperature) ==
    [time |-> time, condition |-> Str("unknown"), temperature_c |-> Num(temperature),
     feels_like_c |-> NoneV, dew_point_c |-> NoneV,
     relative_humidity_percent |-> NoneV, cloud_cover |-> <<>>,
     precipitation |-> <<>>, wind |-> <<>>, pressure_hpa |-> NoneV,
     visibility_m |-> NoneV, uv_index |-> NoneV, astronomical |-> <<>>]

(***************************************************************************)
(* models/activity.py: the constraint groups with every field at its       *)
(* default, ActivityRequirements() and the stock activities.               *)
(***************************************************************************)
TemperatureRange ==
    [min_c |-> NoneV, max_c |-> NoneV, ideal_min_c |-> NoneV, ideal_max_c |-> NoneV]

WindConstraints ==
    [max_speed_ms |-> NoneV, max_gust_ms |-> NoneV, ideal_max_speed_ms |-> NoneV]

CloudConstraints ==
    [max_total_percent |-> NoneV, max_high_percent |-> NoneV,
     ideal_max_total_percent |-> NoneV]

PrecipitationConstraints ==
    [max_probability_percent |-> NoneV, allow_light_rain |-> FALSE,
     allow_snow |-> FALSE]

SunConstraints ==
    [min_altitude_deg |-> NoneV, max_altitude_deg |-> NoneV,
     require_below_horizon |-> FALSE, require_astronomical_twilight |-> FALSE]

MoonConstraints ==
    [max_illumination_percent |-> NoneV, require_below_horizon |-> FALSE]

SeeingConstraints == [max_arcsec |-> NoneV, ideal_max_arcsec |-> NoneV]

TransparencyConstraints == [min_magnitude |-> NoneV, ideal_min_magnitude |-> NoneV]

ActivityRequirements ==
    [temperature |-> <<>>, wind |-> <<>>, clouds |-> <<>>, precipitation |-> <<>>,
     min_visibility_m |-> NoneV, sun |-> <<>>, moon |-> <<>>, seeing |-> <<>>,
     transparency |-> <<>>, max_uv_index |-> NoneV,
     require_daylight |-> FALSE, require_darkness |-> FALSE]

\* Activity(id=..., name=..., requirements=...)
Activity(id, name, requirements) ==
    [id |-> id, name |-> name, requirements |-> requirements]

create_running_activity ==
    Activity("running", "Running",
        [ActivityRequirements EXCEPT
            !.temperature = <<[TemperatureRange EXCEPT
                !.min_c = Num(-15), !.max_c = Num(35),
                !.ideal_min_c = Num(10), !.ideal_max_c = Num(20)]>>,
            !.wind = <<[WindConstraints EXCEPT
                !.max_speed_ms = Num(15), !.ideal_max_speed_ms = Num(7)]>>,
            !.precipitation = <<[PrecipitationConstraints EXCEPT
                !.max_probability_percent = Num(50), !.allow_light_rain = TRUE]>>])

create_cycling_activity ==
    Activity("cycling", "Cycling",
        [ActivityRequirements EXCEPT
            !.temperature = <<[TemperatureRange EXCEPT
                !.min_c = Num(-5), !.max_c = Num(38),
                !.ideal_min_c = Num(15), !.ideal_max_c = Num(28)]>>,
            !.wind = <<[WindConstraints EXCEPT
                !.max_speed_ms = Num(12), !.max_gust_ms = Num(18),
                !.ideal_max_speed_ms = Num(5)]>>,
            !.precipitation = <<[PrecipitationConstraints EXCEPT
                !.max_probability_percent = Num(30)]>>])

create_astronomy_activity ==
    Activity("astronomy", "Astronomy Observing",
        [ActivityRequirements EXCEPT
            !.temperature = <<[TemperatureRange EXCEPT
                !.min_c = Num(-20), !.max_c = Num(35)]>>,
            !.wind = <<[WindConstraints EXCEPT
                !.max_speed_ms = Num(8), !.max_gust_ms = Num(12),
                !.ideal_max_speed_ms = Num(4)]>>,
            !.clouds = <<[CloudConstraints EXCEPT
                !.max_total_percent = Num(30),
                !.ideal_max_total_percent = Num(10)]>>,
            !.precipitation = <<[PrecipitationConstraints EXCEPT
                !.max_probability_percent = Num(10)]>>,
            !.sun = <<[SunConstraints EXCEPT
                !.require_below_horizon = TRUE,
                !.require_astronomical_twilight = TRUE]>>,
            !.moon = <<[MoonConstraints EXCEPT
                !.max_illumination_percent = Num(50)]>>])

create_solar_observation_activity ==
    Activity("solar_observation", "Solar Observation",
        [ActivityRequirements EXCEPT
            !.temperature = <<[TemperatureRange EXCEPT
                !.min_c = Num(0), !.max_c = Num(38)]>>,
            !.wind = <<[WindConstraints EXCEPT
                !.max_speed_ms = Num(6), !.max_gust_ms = Num(10),
                !.ideal_max_speed_ms = Num(3)]>>,
            !.clouds = <<[CloudConstraints EXCEPT
                !.max_total_percent = Num(20),
                !.ideal_max_total_percent = Num(5)]>>,
            !.sun = <<[SunConstraints EXCEPT !.min_altitude_deg = Num(20)]>>])

(***************************************************************************)
(* The calls of the model.  `call` is the operation called last with its   *)
(* arguments, `ret` is <<>> while the call runs and <<result>> once it has *)
(* returned.                                                               *)
(***************************************************************************)
Running == ret = <<>>
Returned == ret # <<>>
NoCaches == <<>>

(***************************************************************************)
(* SpecCond: Condition.evaluate on one condition and one forecast.         *)
(***************************************************************************)
\* the comparison values a Condition is built with (Condition.value is Any)
ExpectedValues ==
    {Num(0), Num(10), Bool(TRUE), Str("clear"), List(<<>>), List(<<Num(0)>>),
     List(<<Num(0), Num(50)>>), List(<<Str("clear"), Str("unknown")>>)}

\* forecasts with each optional sub-record present or absent, and with present
\* sub-records whose optional fields are unset
CondForecasts ==
    { [HourlyForecast(1, 20) EXCEPT !.wind = w, !.cloud_cover = c,
                                    !.precipitation = p, !.astronomical = a] :
        w \in {<<>>, <<Wind(3, NoneV)>>},
        c \in {<<>>, <<CloudCover(40, NoneV)>>},
        p \in {<<>>, <<Precipitation(10, NoneV)>>},
        a \in {<<>>, <<AstronomicalData(NoneV, NoneV, NoneV)>>,
               <<AstronomicalData(Num(-25), Num(-10), Num(15))>>} }
    \cup
    { [HourlyForecast(1, 10) EXCEPT
          !.condition = Str("clear"), !.feels_like_c = Num(8),
          !.dew_point_c = Num(0), !.relative_humidity_percent = Num(50),
          !.pressure_hpa = Num(50), !.visibility_m = Num(50), !.uv_index = Num(0),
          !.wind = <<Wind(5, Num(8))>>, !.cloud_cover = <<CloudCover(0, Num(0))>>,
          !.precipitation = <<Precipitation(50, Num(0))>>] }

InitCond ==
    /\ cache = NoCaches
    /\ memo = <<>>
    /\ ret = <<>>
    /\ call \in { [op |-> "evaluate", cond |-> Condition(t, o, v), forecast |-> f] :
                    t \in ConditionType, o \in ComparisonOperator,
                    v \in ExpectedValues, f \in CondForecasts }

\* cond.evaluate(forecast)
Evaluate ==
    /\ call.op = "evaluate"
    /\ Running
    /\ ret' = <<evaluate(call.cond, call.forecast)>>
    /\ UNCHANGED <<cache, call, memo>>

NextCond == Evaluate

SpecCond == InitCond /\ [][NextCond]_vars

\* C3: whenever the value extracted from the forecast is None, whatever the
\* condition type, the operator and the comparison value, Condition.evaluate
\* returns a result with passed = False and actual_value = None.
NoneNeverPasses ==
    (call.op = "evaluate" /\ Returned
        /\ _extract_value(call.cond.type, call.forecast) = NoneV)
    => (ret[1].passed = FALSE /\ ret[1].actual_value = NoneV)

\* a None actual value met a comparison that holds for None in Python
\* (None != 10, None not in [0]) and the result is still a failure
NoneMetNegation ==
    /\ call.op = "evaluate" /\ Returned
    /\ ret[1].actual_value = NoneV
    /\ call.cond.operator \in {"neq", "not_in"}
    /\ call.cond.value \in {Num(10), List(<<Num(0)>>)}
    /\ ~ret[1].passed

\* C4: on a forecast that lacks a sub-record, every condition type that reads
\* from that sub-record has actual value None and does not pass.
SubRecordTypes ==
    [wind          |-> {"wind_speed", "wind_gust", "wind_direction"},
     cloud_cover   |-> {"cloud_cover", "cloud_cover_low", "cloud_cover_high"},
     precipitation |-> {"precipitation_probability", "precipitation_amount"},
     astronomical  |-> {"sun_altitude", "moon_altitude", "moon_illumination",
                        "is_night", "is_astronomical_night"}]

MissingSubRecordIsNone ==
    \A sub \in DOMAIN SubRecordTypes :
        (call.op = "evaluate" /\ Returned
            /\ call.forecast[sub] = <<>>
            /\ call.cond.type \in SubRecordTypes[sub])
        => (ret[1].actual_value = NoneV /\ ~ret[1].passed)

\* a condition on the precipitation probability passed on a forecast that has
\* no precipitation sub-record
PassedWithoutPrecipitation ==
    /\ call.op = "evaluate" /\ Returned
    /\ call.forecast.precipitation = <<>>
    /\ call.cond.type = "precipitation_probability"
    /\ ret[1].passed

(***************************************************************************)
(* SpecEval: evaluate_conditions on one forecast and one list of           *)
(* conditions, and a second evaluation of the same list with the           *)
(* severity_on_fail of one required condition raised.                      *)
(***************************************************************************)
MaxConds == 3
MaxSeverity == 10

\* <<weight in tenths, severity_on_fail>> of the conditions of the pool
WeightAndSeverity == {<<10, 10>>, <<7, 5>>, <<0, 5>>}
\* the severities a condition is raised to
Severities == {0, 5, 8, MaxSeverity}

\* Condition(type=WIND_SPEED, operator=LESS_THAN_OR_EQUAL, value=v, ...)
EvalPool ==
    { [Condition("wind_speed", "lte", Num(v)) EXCEPT
          !.is_required = r, !.weight = ws[1], !.severity_on_fail = ws[2]] :
        v \in {2, 5}, r \in BOOLEAN, ws \in WeightAndSeverity }

\* an hour with wind of 3 m/s and an hour without wind data
EvalForecasts ==
    { [HourlyForecast(1, 20) EXCEPT !.wind = <<Wind(3, NoneV)>>],
      HourlyForecast(2, 20) }

ConditionLists == UNION { [1..n -> EvalPool] : n \in 0..MaxConds }

InitEval ==
    /\ cache = NoCaches
    /\ memo = <<>>
    /\ ret = <<>>
    /\ call \in [op : {"evaluate_conditions"}, forecast : EvalForecasts,
                 conditions : ConditionLists]

\* evaluate_conditions(forecast, conditions)
EvaluateConditions ==
    /\ call.op = "evaluate_conditions"
    /\ Running
    /\ ret' = <<evaluate_conditions(call.forecast, call.conditions)>>
    /\ UNCHANGED <<cache, call, memo>>

\* evaluate_conditions(forecast, conditions') where conditions' is the list
\* just evaluated with the severity_on_fail of its i-th condition, a required
\* one, raised to s; memo keeps the earlier call and its result
RaiseSeverity(i, s) ==
    /\ call.op = "evaluate_conditions"
    /\ Returned
    /\ memo = <<>>
    /\ call.conditions[i].is_required
    /\ s > call.conditions[i].severity_on_fail
    /\ call' = [call EXCEPT !.conditions[i].severity_on_fail = s]
    /\ memo' = <<[call |-> call, value |-> ret[1]]>>
    /\ ret' = <<evaluate_conditions(call'.forecast, call'.conditions)>>
    /\ UNCHANGED cache

NextEval ==
    \/ EvaluateConditions
    \/ \E i \in 1..MaxConds, s \in Severities :
          i <= Len(call.conditions) /\ RaiseSeverity(i, s)

SpecEval == InitEval /\ [][NextEval]_vars

\* the positions of the required conditions of the call that fail on its forecast
FailedRequired ==
    {i \in 1..Len(call.conditions) :
        /\ call.conditions[i].is_required
        /\ ~evaluate(call.conditions[i], call.forecast).passed}

\* the k-th smallest element of a set of positions
Nth(positions, k) ==
    CHOOSE i \in positions : Cardinality({j \in positions : j <= i}) = k

\* C1: evaluate_conditions returns passed = False exactly when a required
\* condition failed (failures of optional conditions leave passed = True), and
\* blocking_conditions is the results of the failed required conditions, in the
\* order of the conditions.
PassedIffNoRequiredFailed ==
    (call.op = "evaluate_conditions" /\ Returned)
    => /\ ret[1].passed = (FailedRequired = {})
       /\ Len(ret[1].blocking_conditions) = Cardinality(FailedRequired)
       /\ \A k \in 1..Len(ret[1].blocking_conditions) :
             ret[1].blocking_conditions[k] =
                 evaluate(call.conditions[Nth(FailedRequired, k)], call.forecast)

\* an evaluation passed although an optional condition failed, and another one
\* failed with two blocking conditions
OptionalFailedAlone ==
    /\ call.op = "evaluate_conditions" /\ Returned
    /\ ret[1].passed
    /\ \E i \in 1..Len(call.conditions) :
          ~call.conditions[i].is_required /\ ~ret[1].results[i].passed

\* the sum of the weights (in tenths) and of weight * credit of the call
RECURSIVE SumOver(_, _)
SumOver(f, n) == IF n = 0 THEN 0 ELSE f[n] + SumOver(f, n - 1)

WeightSum ==
    SumOver([i \in 1..Len(call.conditions) |-> call.conditions[i].weight],
            Len(call.conditions))

CreditSum ==
    SumOver([i \in 1..Len(call.conditions) |->
                call.conditions[i].weight
                * (IF evaluate(call.conditions[i], call.forecast).passed THEN 100
                   ELSE Max(0, 100 - call.conditions[i].severity_on_fail * 10))],
            Len(call.conditions))

\* |score * WeightSum - CreditSum| is at most 2^-20 tenths: the score is the
\* weighted average up to the rounding of the float operations
ScoreIsWeightedAverage ==
    LET lhs == BigMulSmall(ret[1].score, WeightSum)
        rhs == BigInt(CreditSum)
        tol == <<0, 0, 1, 0>>
    IN  /\ BigCmp(lhs, BigAdd(rhs, tol)) <= 0
        /\ BigCmp(BigAdd(lhs, tol), rhs) >= 0

\* C2: for a non-empty list of positive total weight the score is the weighted
\* partial-credit average of the conditions, and it lies in [0, 100].
ScoreIsAverageWithin0And100 ==
    (call.op = "evaluate_conditions" /\ Returned
        /\ call.conditions # <<>> /\ WeightSum > 0)
    => /\ ScoreIsWeightedAverage
       /\ BigCmp(ret[1].score, BigZero) >= 0
       /\ BigCmp(ret[1].score, BigInt(100)) <= 0

\* the weighted-average part of C2 alone
ScoreIsAverage ==
    (call.op = "evaluate_conditions" /\ Returned
        /\ call.conditions # <<>> /\ WeightSum > 0)
    => ScoreIsWeightedAverage

\* every condition passed and the score is above 100
ScoreAbove100 ==
    /\ call.op = "evaluate_conditions" /\ Returned
    /\ \A i \in 1..Len(ret[1].results) : ret[1].results[i].passed
    /\ BigCmp(ret[1].score, BigInt(100)) > 0

\* C9: with the forecast and every other condition unchanged, raising the
\* severity_on_fail of one required condition never increases the score.
ScoreMonotoneInSeverity ==
    (call.op = "evaluate_conditions" /\ Returned /\ memo # <<>>)
    => BigCmp(ret[1].score, memo[1].value.score) <= 0

\* the severity of a failing required condition was raised and the score fell
ScoreFellAfterRaise ==
    /\ call.op = "evaluate_conditions" /\ Returned /\ memo # <<>>
    /\ \E i \in 1..Len(call.conditions) :
          /\ call.conditions[i].severity_on_fail
                > memo[1].call.conditions[i].severity_on_fail
          /\ call.conditions[i].is_required
    /\ BigCmp(ret[1].score, memo[1].value.score) < 0

(***************************************************************************)
(* SpecReq: RuleEngine.requirements_to_conditions, called again and again  *)
(* on the engines with requirements of every shape.                        *)
(***************************************************************************)
NEngines == 2
Engines == 1..NEngines

\* a value for a numeric bound (0 is a bound too, and is falsy in Python)
LeafValue == 10

GroupDefaults ==
    [temperature |-> TemperatureRange, wind |-> WindConstraints,
     clouds |-> CloudConstraints, precipitation |-> PrecipitationConstraints,
     sun |-> SunConstraints, moon |-> MoonConstraints,
     seeing |-> SeeingConstraints, transparency |-> TransparencyConstraints]

\* the leaf fields of ActivityRequirements as <<group, field>>; the group of a
\* field of ActivityRequirements itself is ""
NumericLeaves ==
    {<<"temperature", "min_c">>, <<"temperature", "max_c">>,
     <<"temperature", "ideal_min_c">>, <<"temperature", "ideal_max_c">>,
     <<"wind", "max_speed_ms">>, <<"wind", "max_gust_ms">>,
     <<"wind", "ideal_max_speed_ms">>,
     <<"clouds", "max_total_percent">>, <<"clouds", "max_high_percent">>,
     <<"clouds", "ideal_max_total_percent">>,
     <<"precipitation", "max_probability_percent">>,
     <<"sun", "min_altitude_deg">>, <<"sun", "max_altitude_deg">>,
     <<"moon", "max_illumination_percent">>,
     <<"seeing", "max_arcsec">>, <<"seeing", "ideal_max_arcsec">>,
     <<"transparency", "min_magnitude">>, <<"transparency", "ideal_min_magnitude">>,
     <<"", "min_visibility_m">>, <<"", "max_uv_index">>}

FlagLeaves ==
    {<<"precipitation", "allow_light_rain">>, <<"precipitation", "allow_snow">>,
     <<"sun", "require_below_horizon">>, <<"sun", "require_astronomical_twilight">>,
     <<"moon", "require_below_horizon">>,
     <<"", "require_daylight">>, <<"", "require_darkness">>}

Leaves == NumericLeaves \cup FlagLeaves

\* the value of a leaf; the leaves of an absent group are at their defaults
LeafOf(requirements, leaf) ==
    IF leaf[1] = "" THEN requirements[leaf[2]]
    ELSE IF requirements[leaf[1]] = <<>> THEN GroupDefaults[leaf[1]][leaf[2]]
    ELSE requirements[leaf[1]][1][leaf[2]]

Populated(requirements, leaf) ==
    IF leaf \in FlagLeaves THEN LeafOf(requirements, leaf) = TRUE
    ELSE LeafOf(requirements, leaf) # NoneV

\* requirements with one more leaf set
Populate(requirements, leaf, v) ==
    IF leaf[1] = "" THEN [requirements EXCEPT ![leaf[2]] = v]
    ELSE [requirements EXCEPT ![leaf[1]] =
            <<[(IF @ = <<>> THEN GroupDefaults[leaf[1]] ELSE @[1])
                  EXCEPT ![leaf[2]] = v]>>]

RECURSIVE PopulateAll(_, _, _)
PopulateAll(requirements, leaves, v) ==
    IF leaves = {} THEN requirements
    ELSE LET leaf == CHOOSE l \in leaves : TRUE
         IN  PopulateAll(Populate(requirements, leaf,
                                  IF leaf \in FlagLeaves THEN TRUE ELSE v),
                         leaves \ {leaf}, v)

\* ActivityRequirements values: nothing populated, a group present with its
\* defaults, one leaf populated, every leaf populated, the stock activities
RequirementValues ==
    {ActivityRequirements}
    \cup {[ActivityRequirements EXCEPT ![g] = <<GroupDefaults[g]>>] :
            g \in DOMAIN GroupDefaults}
    \cup {Populate(ActivityRequirements, l, Num(v)) :
            l \in NumericLeaves, v \in {0, LeafValue}}
    \cup {Populate(ActivityRequirements, l, TRUE) : l \in FlagLeaves}
    \cup {PopulateAll(ActivityRequirements, Leaves, Num(LeafValue))}
    \cup {create_running_activity.requirements, create_cycling_activity.requirements,
          create_astronomy_activity.requirements,
          create_solar_observation_activity.requirements}

NoCall == [op |-> "none"]

InitReq ==
    /\ cache = NoCaches
    /\ call = NoCall
    /\ ret = <<>>
    /\ memo = <<>>

\* engine.requirements_to_conditions(requirements) on engine e; memo keeps one
\* of the earlier calls with what it returned
RequirementsToConditions(e, requirements) ==
    /\ call' = [op |-> "requirements_to_conditions", engine |-> e,
                requirements |-> requirements]
    /\ ret' = <<requirements_to_conditions(requirements)>>
    /\ \/ memo' = memo
       \/ /\ call.op = "requirements_to_conditions"
          /\ memo' = <<[engine |-> call.engine, requirements |-> call.requirements,
                        value |-> ret[1]]>>
    /\ UNCHANGED cache

NextReq ==
    \E e \in Engines, requirements \in RequirementValues :
        RequirementsToConditions(e, requirements)

SpecReq == InitReq /\ [][NextReq]_vars

\* the requirements with nothing populated but the leaf, at its value
Only(requirements, leaf) ==
    Populate(ActivityRequirements, leaf, LeafOf(requirements, leaf))

HardLeaves ==
    {<<"temperature", "min_c">>, <<"temperature", "max_c">>,
     <<"wind", "max_speed_ms">>, <<"wind", "max_gust_ms">>,
     <<"clouds", "max_total_percent">>,
     <<"precipitation", "max_probability_percent">>,
     <<"", "min_visibility_m">>,
     <<"sun", "min_altitude_deg">>, <<"sun", "max_altitude_deg">>,
     <<"sun", "require_below_horizon">>, <<"sun", "require_astronomical_twilight">>,
     <<"", "max_uv_index">>}

IdealLeaves ==
    {<<"temperature", "ideal_min_c">>, <<"temperature", "ideal_max_c">>,
     <<"wind", "ideal_max_speed_ms">>, <<"clouds", "ideal_max_total_percent">>}

\* the populated hard or ideal field `leaf` of the call's requirements has
\* exactly one Condition in the returned list, a hard one with a severity in
\* lo..hi and weight 1.0, an ideal one optional with severity 2 and weight 0.5
OneConditionFor(leaf, lo, hi) ==
    LET one == requirements_to_conditions(Only(call.requirements, leaf))
    IN  /\ Len(one) = 1
        /\ Cardinality({i \in 1..Len(ret[1]) : ret[1][i] = one[1]}) = 1
        /\ leaf \in HardLeaves =>
              /\ one[1].is_required
              /\ one[1].severity_on_fail \in lo..hi
              /\ one[1].weight = 10
        /\ leaf \in IdealLeaves =>
              /\ ~one[1].is_required
              /\ one[1].severity_on_fail = 2
              /\ one[1].weight = 5

ConstraintLeaves ==
    {l \in NumericLeaves : l[1] \notin {"seeing", "transparency"}}
    \cup {l \in FlagLeaves : l[1] # "precipitation"}

\* C7: every populated leaf yields at least one Condition, and the conditions
\* are those of the populated leaves only, so that requirements with nothing
\* populated yield the empty list.
EveryPopulatedLeafYields ==
    (call.op = "requirements_to_conditions" /\ Returned)
    => /\ \A leaf \in ConstraintLeaves :
             Populated(call.requirements, leaf)
             => Len(requirements_to_conditions(Only(call.requirements, leaf))) >= 1
       /\ (\A leaf \in Leaves : ~Populated(call.requirements, leaf))
             => ret[1] = <<>>

\* the absent-field half of C7 alone
NothingPopulatedYieldsNothing ==
    (call.op = "requirements_to_conditions" /\ Returned
        /\ \A leaf \in Leaves : ~Populated(call.requirements, leaf))
    => ret[1] = <<>>

\* ActivityRequirements(require_darkness=True) yields the empty list
DarknessYieldsNothing ==
    /\ call.op = "requirements_to_conditions" /\ Returned
    /\ call.requirements = [ActivityRequirements EXCEPT !.require_darkness = TRUE]
    /\ ret[1] = <<>>

\* the place of a condition type in the order temperature, wind, clouds,
\* precipitation, visibility, sun, moon, UV
GroupRank(type) ==
    CASE type = "temperature" -> 1
      [] type \in {"wind_speed", "wind_gust"} -> 2
      [] type = "cloud_cover" -> 3
      [] type = "precipitation_probability" -> 4
      [] type = "visibility" -> 5
      [] type = "sun_altitude" -> 6
      [] type \in {"moon_illumination", "moon_altitude"} -> 7
      [] type = "uv_index" -> 8
      [] OTHER -> 0

MaxHours == 2

\* Activity(id="moonless", ..., requirements=ActivityRequirements(
\*     moon=MoonConstraints(max_illumination_percent=50)))
MoonlessActivity ==
    Activity("moonless", "Moonless Walk",
        [ActivityRequirements EXCEPT
            !.moon = <<[MoonConstraints EXCEPT
                !.max_illumination_percent = Num(50)]>>])

Activities == {create_astronomy_activity, MoonlessActivity}
ActivityIds == {a.id : a \in Activities}

\* a clear moonless night, the same night with a bright moon, the same night
\* overcast, and an hour of which only the temperature is known
ClearNight ==
    [HourlyForecast(1, 18) EXCEPT
        !.condition = Str("clear"), !.feels_like_c = Num(17),
        !.relative_humidity_percent = Num(55),
        !.cloud_cover = <<CloudCover(5, Num(3))>>,
        !.precipitation = <<Precipitation(0, NoneV)>>,
        !.wind = <<Wind(2, Num(3))>>, !.visibility_m = Num(30000),
        !.astronomical = <<AstronomicalData(Num(-25), Num(-10), Num(15))>>]

BrightNight ==
    [ClearNight EXCEPT
        !.time = 2,
        !.astronomical = <<AstronomicalData(Num(-25), Num(40), Num(90))>>]

CloudyNight ==
    [ClearNight EXCEPT !.time = 3, !.cloud_cover = <<CloudCover(90, Num(80))>>]

BareHour == HourlyForecast(4, 18)

Forecasts == {ClearNight, BrightNight, CloudyNight, BareHour}
ForecastLists == UNION { [1..n -> Forecasts] : n \in 0..MaxHours }

\* the calls a client makes
Calls ==
    [op : {"get_conditions_for_activity"}, engine : Engines, activity : Activities]
    \cup [op : {"evaluate_forecast", "make_decision"}, engine : Engines,
          forecast : Forecasts, activity : Activities]
    \cup [op : {"find_best_time"}, engine : Engines, forecasts : ForecastLists,
          activity : Activities, require_passing : BOOLEAN]

\* RuleEngine(): self._condition_cache = {}
Init ==
    /\ cache = [e \in Engines |-> [id \in ActivityIds |-> <<>>]]
    /\ call = NoCall
    /\ ret = <<>>
    /\ memo = <<>>

\* a client calls a method of an engine once the call before has returned
Invoke(c) ==
    /\ call = NoCall \/ Returned
    /\ call' = c
    /\ ret' = <<>>
    /\ UNCHANGED <<cache, memo>>

\* the outcome of a method: the engine's cache afterwards and the value returned
Return(outcome) ==
    /\ cache' = [cache EXCEPT ![call.engine] = outcome.cache]
    /\ ret' = <<outcome.value>>
    /\ UNCHANGED <<call, memo>>

GetConditionsForActivity ==
    /\ call.op = "get_conditions_for_activity" /\ Running
    /\ Return(get_conditions_for_activity(cache[call.engine], call.activity))

EvaluateForecast ==
    /\ call.op = "evaluate_forecast" /\ Running
    /\ Return(evaluate_forecast(cache[call.engine], call.forecast, call.activity))

MakeDecision ==
    /\ call.op = "make_decision" /\ Running
    /\ Return(make_decision(cache[call.engine], call.forecast, call.activity))

FindBestTime ==
    /\ call.op = "find_best_time" /\ Running
    /\ Return(find_best_time(cache[call.engine], call.forecasts, call.activity,
                             call.require_passing))

Next ==
    \/ \E c \in Calls : Invoke(c)
    \/ GetConditionsForActivity
    \/ EvaluateForecast
    \/ MakeDecision
    \/ FindBestTime

Spec == Init /\ [][Next]_vars

\* the evaluation of a forecast against the conditions of the call's activity
Evaluation(forecast) ==
    evaluate_conditions(forecast,
                        requirements_to_conditions(call.activity.requirements))

\* the decision d is the one the claim gives for the evaluation ev
DecisionMatches(d, ev) ==
    /\ d.decision = "GO" <=> (ev.passed /\ BigCmp(ev.score, BigInt(80)) >= 0)
    /\ d.decision = "MARGINAL" <=> (ev.passed /\ BigCmp(ev.score, BigInt(80)) < 0)
    /\ d.decision = "NO_GO" <=> ~ev.passed
    /\ d.decision = "NO_GO" =>
          /\ d.blocking_factors # <<>>
          /\ \A i \in 1..Len(ev.results) :
                (~ev.results[i].passed /\ ev.blocking_conditions # <<>>
                    /\ \E k \in 1..Len(ev.blocking_conditions) :
                          ev.blocking_conditions[k] = ev.results[i])
                => \E k \in 1..Len(d.blocking_factors) :
                      d.blocking_factors[k] = ev.results[i].condition_type
    /\ d.decision # "NO_GO" => d.blocking_factors = <<>>

\* C5: make_decision returns GO exactly when the evaluation passed with a score
\* of at least 80, MARGINAL exactly when it passed with a lower score, NO_GO
\* exactly when a required condition failed; blocking_factors lists the types of
\* the failed required conditions for NO_GO and is empty otherwise.
DecisionFollowsEvaluation ==
    (call.op = "make_decision" /\ Returned)
    => /\ ret[1].exc = "none"
       /\ DecisionMatches(ret[1], Evaluation(call.forecast))

\* C5 for the calls that return a decision
ReturnedDecisionFollowsEvaluation ==
    (call.op = "make_decision" /\ Returned /\ ret[1].exc = "none")
    => DecisionMatches(ret[1], Evaluation(call.forecast))

\* make_decision raised on a forecast without data for one of the conditions
DecisionRaisedOnMissingData ==
    /\ call.op = "make_decision" /\ Returned
    /\ ret[1].exc = "ValidationError"
    /\ \E i \in 1..Len(Evaluation(call.forecast).results) :
          Evaluation(call.forecast).results[i].actual_value = NoneV

\* make_decision raised although every condition has data and passed: the
\* score is above 100
DecisionRaisedOnPerfectNight ==
    /\ call.op = "make_decision" /\ Returned
    /\ ret[1].exc = "ValidationError"
    /\ \A i \in 1..Len(Evaluation(call.forecast).results) :
          Evaluation(call.forecast).results[i].passed

\* a passing evaluation with a score below 80 gave MARGINAL
MarginalDecisionReturned ==
    /\ call.op = "make_decision" /\ Returned
    /\ ret[1].exc = "none"
    /\ ret[1].decision = "MARGINAL"

\* the hours find_best_time considers
Considered ==
    {i \in 1..Len(call.forecasts) :
        ~call.require_passing \/ Evaluation(call.forecasts[i]).passed}

\* C10: find_best_time returns None exactly when it considers no hour, and
\* otherwise the evaluation of a considered hour whose score no considered hour
\* exceeds and no earlier considered hour equals.
BestTimeIsFirstMaximum ==
    (call.op = "find_best_time" /\ Returned)
    => /\ ret[1] = <<>> <=> Considered = {}
       /\ ret[1] # <<>> =>
             \E i \in Considered :
                /\ ret[1][1] = Evaluation(call.forecasts[i])
                /\ \A j \in Considered :
                      LET c == BigCmp(Evaluation(call.forecasts[j]).score,
                                      ret[1][1].score)
                      IN  c < 0 \/ (c = 0 /\ i <= j)

\* two different considered hours tie for the highest score and the first is
\* returned
TieWentToFirst ==
    /\ call.op = "find_best_time" /\ Returned
    /\ Len(call.forecasts) = 2
    /\ call.forecasts[1] # call.forecasts[2]
    /\ Considered = {1, 2}
    /\ Evaluation(call.forecasts[1]).score = Evaluation(call.forecasts[2]).score
    /\ ret[1] = <<Evaluation(call.forecasts[1])>>

(***************************************************************************)
(* SpecGo: GoNoGoEvaluator.evaluate on evaluators of up to MaxFactors      *)
(* factors and on the stock astronomy evaluator.                           *)
(***************************************************************************)
MaxFactors == 3

\* factors over present, absent and unknown values, with and without the
\* blocking flag, of every weight class and threshold type
GoFactors ==
    {WeightedFactor("cloud_cover", "Cloud Cover", DecisionWeight.CRITICAL,
                    Num(30), "max", TRUE),
     WeightedFactor("cloud_cover", "Clouds", DecisionWeight.CRITICAL,
                    Num(30), "max", FALSE),
     WeightedFactor("wind_speed", "Wind Speed", DecisionWeight.HIGH,
                    Num(8), "max", FALSE),
     WeightedFactor("wind_speed", "Calm", DecisionWeight.MEDIUM,
                    Num(1), "max", FALSE),
     WeightedFactor("wind_gust", "Wind Gusts", DecisionWeight.HIGH,
                    Num(1), "max", TRUE),
     WeightedFactor("temperature", "Warmth", DecisionWeight.LOW,
                    Num(20), "min", FALSE),
     WeightedFactor("temperature", "Temperature", DecisionWeight.MINIMAL,
                    Num(-10), "min", FALSE),
     WeightedFactor("precipitation_probability", "Rain", DecisionWeight.HIGH,
                    Num(10), "min", TRUE),
     WeightedFactor("seeing", "Seeing", DecisionWeight.MEDIUM,
                    Num(2), "max", TRUE),
     WeightedFactor("uv_index", "UV", DecisionWeight.CRITICAL,
                    NoneV, "max", FALSE),
     [WeightedFactor("cloud_cover", "Some Cloud", DecisionWeight.MEDIUM,
                     NoneV, "range", FALSE)
         EXCEPT !.range_min = Num(10), !.range_max = Num(50)]}

GoEvaluators ==
    {GoNoGoEvaluator(fs) : fs \in UNION { [1..n -> GoFactors] : n \in 0..MaxFactors }}
    \cup {AstronomyGoNoGoEvaluator(NoneV), AstronomyGoNoGoEvaluator(Num(50))}

InitGo ==
    /\ cache = NoCaches
    /\ memo = <<>>
    /\ ret = <<>>
    /\ call \in [op : {"evaluate"}, evaluator : GoEvaluators, forecast : Forecasts]

\* evaluator.evaluate(forecast)
GoNoGoEvaluate ==
    /\ call.op = "evaluate"
    /\ Running
    /\ ret' = <<GoNoGoEvaluator_evaluate(call.evaluator, call.forecast)>>
    /\ UNCHANGED <<cache, call, memo>>

NextGo == GoNoGoEvaluate

SpecGo == InitGo /\ [][NextGo]_vars

\* factor i of the call did not pass
Failed(i) == ~ret[1].factors[i].is_acceptable

FactorIndices == 1..Len(call.evaluator.factors)

\* the decision the score alone gives
DecisionByScore(score) ==
    IF BigCmp(score, BigInt(70)) >= 0 THEN "GO"
    ELSE IF BigCmp(score, BigInt(50)) >= 0 THEN "MARGINAL"
    ELSE "NO_GO"

\* the display name is one of the blocking factors
Listed(name) ==
    \E k \in 1..Len(ret[1].blocking_factors) : ret[1].blocking_factors[k] = name

\* C11 as stated: a failing factor with is_blocking=True forces NO_GO and is
\* listed in blocking_factors; when no such factor fails the score alone
\* decides (GO from 70, MARGINAL from 50, NO_GO below).
BlockingFlagDecides ==
    (call.op = "evaluate" /\ Returned)
    => /\ \A i \in FactorIndices :
            (Failed(i) /\ call.evaluator.factors[i].is_blocking)
            => /\ ret[1].decision = "NO_GO"
               /\ Listed(call.evaluator.factors[i].display_name)
       /\ (\A i \in FactorIndices :
              ~(Failed(i) /\ call.evaluator.factors[i].is_blocking))
          => ret[1].decision = DecisionByScore(ret[1].score)

\* factor i failed and has the blocking flag or the weight CRITICAL
MustBlock(i) ==
    /\ Failed(i)
    /\ \/ call.evaluator.factors[i].is_blocking
       \/ call.evaluator.factors[i].weight = DecisionWeight.CRITICAL

\* C11: a failing factor with is_blocking=True or with weight CRITICAL forces
\* NO_GO, whatever the score, and is listed in blocking_factors; when no such
\* factor fails the score alone decides (GO from 70, MARGINAL from 50, NO_GO
\* below).
BlockingOrCriticalDecides ==
    (call.op = "evaluate" /\ Returned)
    => /\ \A i \in FactorIndices :
            MustBlock(i)
            => /\ ret[1].decision = "NO_GO"
               /\ Listed(call.evaluator.factors[i].display_name)
       /\ (\A i \in FactorIndices :
              ~MustBlock(i))
          => ret[1].decision = DecisionByScore(ret[1].score)

\* the only failing factor has weight CRITICAL without the blocking flag, the
\* score is 50 or more, and the decision is NO_GO
CriticalWeightBlocked ==
    /\ call.op = "evaluate" /\ Returned
    /\ \E i \in FactorIndices :
          /\ Failed(i)
          /\ ~call.evaluator.factors[i].is_blocking
          /\ call.evaluator.factors[i].weight = DecisionWeight.CRITICAL
          /\ \A j \in FactorIndices \ {i} : ~Failed(j)
    /\ BigCmp(ret[1].score, BigInt(50)) >= 0
    /\ ret[1].decision = "NO_GO"

\* the forecast holds data for the factor of this name
HasData(f, name) ==
    CASE name = "temperature" -> TRUE
      [] name = "feels_like" -> f.feels_like_c # NoneV
      [] name = "humidity" -> f.relative_humidity_percent # NoneV
      [] name = "wind_speed" -> f.wind # <<>>
      [] name = "wind_gust" -> f.wind # <<>> /\ f.wind[1].gust_ms # NoneV
      [] name = "cloud_cover" -> f.cloud_cover # <<>>
      [] name = "precipitation_probability" -> f.precipitation # <<>>
      [] name = "visibility" -> f.visibility_m # NoneV
      [] name = "uv_index" -> f.uv_index # NoneV
      [] name = "moon_illumination" ->
            /\ call.evaluator.class = "AstronomyGoNoGoEvaluator"
            /\ f.astronomical # <<>>
            /\ f.astronomical[1].moon_illumination_percent # NoneV
      [] OTHER -> FALSE

\* the value extracted for factor i of the call
ExtractedValue(i) ==
    Get(ExtractValues(call.evaluator, call.forecast), call.evaluator.factors[i].name)

\* a recommendation line names the factor
Monitored(name) ==
    \E k \in 1..Len(ret[1].recommendations) : ret[1].recommendations[k][2] = name

\* factor i, whose value is None, passed with severity INFO, blocks nothing and
\* produces no recommendation line
PassedAsInfo(i) ==
    /\ ret[1].factors[i].is_acceptable
    /\ ret[1].factors[i].severity = "info"
    /\ ~Listed(call.evaluator.factors[i].display_name)
    /\ ~Monitored(call.evaluator.factors[i].display_name)

\* the score with every factor that passed contributing its full weight
FullWeightScore ==
    FDiv(BigInt(100 * SumOver([i \in FactorIndices |->
                                  IF Failed(i) THEN 0
                                  ELSE call.evaluator.factors[i].weight],
                              Len(call.evaluator.factors))),
         BigInt(SumOver([i \in FactorIndices |-> call.evaluator.factors[i].weight],
                        Len(call.evaluator.factors))))

\* C12: a factor whose extracted value is None (or whose name is not among the
\* extracted values) passes with severity INFO, is not a blocking factor, gets
\* no recommendation line and contributes its full weight to the score; and a
\* forecast with no data for any factor is never NO_GO.
AbsentDataNeverBlocks ==
    (call.op = "evaluate" /\ Returned)
    => /\ \A i \in FactorIndices : ExtractedValue(i) = NoneV => PassedAsInfo(i)
       /\ call.evaluator.factors # <<>> => ret[1].score = FullWeightScore
       /\ (\A i \in FactorIndices :
              ~HasData(call.forecast, call.evaluator.factors[i].name))
          => ret[1].decision # "NO_GO"

\* the part of C12 about a factor whose extracted value is None
NoneValuePasses ==
    (call.op = "evaluate" /\ Returned)
    => /\ \A i \in FactorIndices : ExtractedValue(i) = NoneV => PassedAsInfo(i)
       /\ call.evaluator.factors # <<>> => ret[1].score = FullWeightScore

\* the forecast has no precipitation data, the only factor is a blocking one on
\* the precipitation probability, and the decision is NO_GO
BlockedWithoutPrecipitationData ==
    /\ call.op = "evaluate" /\ Returned
    /\ call.forecast.precipitation = <<>>
    /\ Len(call.evaluator.factors) = 1
    /\ call.evaluator.factors[1].name = "precipitation_probability"
    /\ ret[1].decision = "NO_GO"
    /\ Listed(call.evaluator.factors[1].display_name)

\* an evaluator without factors decides NO_GO with score 0
NoFactorsNoGo ==
    /\ call.op = "evaluate" /\ Returned
    /\ call.evaluator.factors = <<>>
    /\ ret[1].decision = "NO_GO"
    /\ ret[1].score = BigZero

\* the loop of evaluate_conditions over conditions that have the weights and
\* the pass/fail pattern of the call's factors and the severities sev
RECURSIVE RuleEngineLoop(_, _, _)
RuleEngineLoop(sev, i, acc) ==
    IF i > Len(call.evaluator.factors) THEN acc
    ELSE RuleEngineLoop(sev, i + 1,
            Accumulate(acc,
                [is_required |-> FALSE,
                 weight      |-> call.evaluator.factors[i].weight * 10],
                [passed   |-> ~Failed(i),
                 severity |-> IF Failed(i) THEN sev[i] ELSE 0]))

\* the score evaluate_conditions gives for that pattern
RuleEngineScore(sev) ==
    EvaluationResult(call.forecast,
        RuleEngineLoop(sev, 1,
            [results |-> <<>>, total_weight |-> BigZero,
             weighted_score |-> BigZero, blocking |-> <<>>])).score

\* C13: the score is the weighted partial-credit score of the Rule Engine over
\* the weight-class values: for the pass/fail pattern and the weights of the
\* factors, and severities on the 0..10 scale of which only those of CRITICAL
\* failures are 10, evaluate_conditions gives the same score.
ScoreIsRuleEngineScore ==
    (call.op = "evaluate" /\ Returned)
    => \E sev \in [FactorIndices -> Severities] :
          /\ \A i \in FactorIndices :
                (Failed(i) /\ ret[1].factors[i].severity # "critical")
                => sev[i] < MaxSeverity
          /\ ret[1].score = RuleEngineScore(sev)

\* the two scores agree when every failure has severity 10, for an evaluator
\* with at least one factor
ScoreIsRuleEngineScoreAtSeverity10 ==
    (call.op = "evaluate" /\ Returned /\ call.evaluator.factors # <<>>)
    => ret[1].score = RuleEngineScore([i \in FactorIndices |-> MaxSeverity])

\* a factor of weight MEDIUM failed with severity CAUTION next to one that
\* passed, and the score is below the Rule Engine's for severity 5
FailureEarnedNoCredit ==
    /\ call.op = "evaluate" /\ Returned
    /\ Len(call.evaluator.factors) = 2
    /\ Failed(1) /\ ~Failed(2)
    /\ ret[1].factors[1].severity = "caution"
    /\ call.evaluator.factors[1].weight = DecisionWeight.MEDIUM
    /\ BigCmp(ret[1].score, RuleEngineScore(<<5, 0>>)) < 0

(***************************************************************************)
(* SpecGear: GearRule.matches on rules with every combination of populated *)
(* predicates, and GearRecommender.recommend on lists of up to MaxRules    *)
(* rules.                                                                  *)
(***************************************************************************)
MaxRules == 3

\* forecasts with and without feels-like temperature (0 included), wind,
\* precipitation and sun altitude
GearForecasts ==
    { [HourlyForecast(1, t) EXCEPT
          !.feels_like_c = fl, !.wind = w, !.precipitation = p,
          !.astronomical = a] :
        t \in {-5, 5, 22},
        fl \in {NoneV, Num(0), Num(20)},
        w \in {<<>>, <<Wind(8, NoneV)>>},
        p \in {<<>>, <<Precipitation(10, NoneV)>>, <<Precipitation(40, NoneV)>>},
        a \in {<<>>, <<AstronomicalData(NoneV, NoneV, NoneV)>>,
               <<AstronomicalData(Num(0), NoneV, NoneV)>>,
               <<AstronomicalData(Num(-25), NoneV, NoneV)>>} }

\* rules with each predicate absent or populated
MatchRules ==
    { [GearRule(GearItem("Jacket", "torso_outer")) EXCEPT
          !.min_temp_c = lo, !.max_temp_c = hi,
          !.min_feels_like_c = flo, !.max_feels_like_c = fhi,
          !.min_wind_ms = w, !.max_precipitation_percent = p,
          !.requires_rain = rain, !.requires_night = night] :
        lo \in {NoneV, Num(0)}, hi \in {NoneV, Num(10)},
        flo \in {NoneV, Num(3)}, fhi \in {NoneV, Num(10)},
        w \in {NoneV, Num(5)}, p \in {NoneV, Num(20)},
        rain \in BOOLEAN, night \in BOOLEAN }

\* GearRule(item=GearItem(name, category), max_temp_c=..., priority=...,
\* exclusive=...)
RuleFor(name, category, max_temp, priority, exclusive) ==
    [GearRule(GearItem(name, category)) EXCEPT
        !.max_temp_c = max_temp, !.priority = priority, !.exclusive = exclusive]

\* rules of two categories, exclusive and not, of priorities 1 to 3, one of
\* them for freezing hours only
RecommendRules ==
    {RuleFor("T-Shirt", "torso_base", NoneV, 1, TRUE),
     RuleFor("Long Sleeve", "torso_base", Num(10), 2, TRUE),
     RuleFor("Thermal", "torso_base", Num(0), 2, TRUE),
     RuleFor("Vest", "torso_base", NoneV, 1, FALSE),
     RuleFor("Reflective Band", "safety", NoneV, 3, FALSE),
     RuleFor("Headlamp", "safety", NoneV, 2, TRUE)}

\* the rules of create_cycling_gear_rules for the legs
CyclingLegRules ==
    <<[GearRule(GearItem("Bib Shorts", "legs")) EXCEPT
          !.min_temp_c = Num(18), !.priority = 1],
      [GearRule(GearItem("Knee Warmers", "legs")) EXCEPT
          !.min_temp_c = Num(12), !.max_temp_c = Num(20),
          !.exclusive = FALSE, !.priority = 2],
      [GearRule(GearItem("Bib Tights", "legs")) EXCEPT
          !.max_temp_c = Num(15), !.priority = 3],
      [GearRule(GearItem("Thermal Tights", "legs")) EXCEPT
          !.max_temp_c = Num(5), !.priority = 4]>>

\* hours of 3, 13 and 19 degrees for the cyclist
CyclingForecasts == {HourlyForecast(1, t) : t \in {3, 13, 19}}

RecommendForecasts ==
    {[HourlyForecast(1, -5) EXCEPT !.wind = <<Wind(9, NoneV)>>],
     [HourlyForecast(2, 5) EXCEPT !.precipitation = <<Precipitation(60, NoneV)>>],
     [HourlyForecast(3, 22) EXCEPT !.uv_index = Num(7)]}

InitGear ==
    /\ cache = NoCaches
    /\ memo = <<>>
    /\ ret = <<>>
    /\ call \in [op : {"matches"}, rule : MatchRules, forecast : GearForecasts]
          \cup [op : {"recommend"},
                recommender : {GearRecommender(rs) :
                    rs \in UNION { [1..n -> RecommendRules] : n \in 0..MaxRules }},
                forecast : RecommendForecasts,
                activity : {"", "running"}]
          \cup [op : {"recommend"},
                recommender : {GearRecommender(CyclingLegRules)},
                forecast : CyclingForecasts,
                activity : {"cycling"}]

\* rule.matches(forecast)
Matches ==
    /\ call.op = "matches"
    /\ Running
    /\ ret' = <<matches(call.rule, call.forecast)>>
    /\ UNCHANGED <<cache, call, memo>>

\* recommender.recommend(forecast, activity)
Recommend ==
    /\ call.op = "recommend"
    /\ Running
    /\ ret' = <<recommend(call.recommender, call.forecast, call.activity)>>
    /\ UNCHANGED <<cache, call, memo>>

NextGear == Matches \/ Recommend

SpecGear == InitGear /\ [][NextGear]_vars

RuleIndices == 1..Len(call.recommender.rules)

\* rule i of the call matches the forecast
RuleMatches(i) == matches(call.recommender.rules[i], call.forecast)

\* rule i is considered before rule j: lower priority number first, equal
\* priorities in the order of the rules list
Before(i, j) ==
    \/ call.recommender.rules[i].priority < call.recommender.rules[j].priority
    \/ /\ call.recommender.rules[i].priority = call.recommender.rules[j].priority
       /\ i < j

\* the matching exclusive rules of a category
MatchingExclusive(category) ==
    {i \in RuleIndices :
        /\ RuleMatches(i)
        /\ call.recommender.rules[i].exclusive
        /\ call.recommender.rules[i].item.category = category}

\* the items of a category in the result
ItemsOf(category) ==
    IF category \in DOMAIN ret[1].by_category THEN ret[1].by_category[category]
    ELSE <<>>

\* how many times the items hold the item
RECURSIVE Count(_, _)
Count(items, item) ==
    IF items = <<>> THEN 0
    ELSE (IF Head(items) = item THEN 1 ELSE 0) + Count(Tail(items), item)

\* the items of the exclusive rules of the call among the items
RECURSIVE FromExclusive(_)
FromExclusive(items) ==
    IF items = <<>> THEN <<>>
    ELSE (IF \E i \in RuleIndices :
                /\ call.recommender.rules[i].exclusive
                /\ call.recommender.rules[i].item = Head(items)
          THEN <<Head(items)>> ELSE <<>>)
         \o FromExclusive(Tail(items))

GearCategories == {"torso_base", "safety", "legs"}

\* C14: of the matching exclusive rules of a category exactly the first in
\* priority order (equal priorities in list order) is selected, and every
\* matching rule that is not exclusive is selected, whatever its category
\* holds already.
FirstExclusivePerCategory ==
    (call.op = "recommend" /\ Returned)
    => /\ \A c \in GearCategories :
            IF MatchingExclusive(c) = {}
            THEN FromExclusive(ItemsOf(c)) = <<>>
            ELSE \E i \in MatchingExclusive(c) :
                    /\ \A j \in MatchingExclusive(c) \ {i} : Before(i, j)
                    /\ FromExclusive(ItemsOf(c)) = <<call.recommender.rules[i].item>>
       /\ \A i \in RuleIndices :
            (RuleMatches(i) /\ ~call.recommender.rules[i].exclusive)
            => Count(ItemsOf(call.recommender.rules[i].item.category),
                     call.recommender.rules[i].item)
               = Cardinality({j \in RuleIndices :
                                 call.recommender.rules[j] = call.recommender.rules[i]})

\* the result never holds two items from exclusive rules in one category
AtMostOneExclusivePerCategory ==
    (call.op = "recommend" /\ Returned)
    => \A c \in GearCategories : Len(FromExclusive(ItemsOf(c))) <= 1

\* a matching exclusive rule, the only one of its category, is left out because
\* a rule that is not exclusive came first in the category
ExclusiveRuleDropped ==
    /\ call.op = "recommend" /\ Returned
    /\ Len(call.recommender.rules) = 2
    /\ ~call.recommender.rules[1].exclusive /\ RuleMatches(1)
    /\ call.recommender.rules[2].exclusive /\ RuleMatches(2)
    /\ call.recommender.rules[1].item.category = call.recommender.rules[2].item.category
    /\ ItemsOf(call.recommender.rules[2].item.category)
       = <<call.recommender.rules[1].item>>

\* the items recommend selects, in order
SelectedItems ==
    ApplyExclusivity(
        SortByPriority(MatchingRules(call.recommender.rules, call.forecast), <<>>),
        <<>>, {})

\* the items of one category among the items, in order
RECURSIVE InCategory(_, _)
InCategory(items, category) ==
    IF items = <<>> THEN <<>>
    ELSE (IF Head(items).category = category THEN <<Head(items)>> ELSE <<>>)
         \o InCategory(Tail(items), category)

\* by_category groups the selected items by category
GroupedByCategory ==
    /\ DOMAIN ret[1].by_category
       = {SelectedItems[k].category : k \in 1..Len(SelectedItems)}
    /\ \A c \in DOMAIN ret[1].by_category :
          ret[1].by_category[c] = InCategory(SelectedItems, c)

\* C15: items lists the item of each selected rule exactly once, so its length
\* is the number of selected rules, and by_category holds the same items grouped
\* by category.
EachSelectedItemListedOnce ==
    (call.op = "recommend" /\ Returned)
    => /\ ret[1].items = SelectedItems
       /\ GroupedByCategory

\* what recommend returns: every selected item twice in items, once in
\* by_category
EachSelectedItemListedTwice ==
    (call.op = "recommend" /\ Returned)
    => /\ ret[1].items = SelectedItems \o SelectedItems
       /\ GroupedByCategory

\* two matching rules of different categories give four items
TwoRulesFourItems ==
    /\ call.op = "recommend" /\ Returned
    /\ Len(call.recommender.rules) = 2
    /\ RuleMatches(1) /\ RuleMatches(2)
    /\ call.recommender.rules[1].item.category # call.recommender.rules[2].item.category
    /\ Len(ret[1].items) = 4

\* the feels-like temperature, the temperature standing in only when
\* feels_like_c is absent
FeelsLike(f) == IF f.feels_like_c # NoneV THEN f.feels_like_c.n ELSE f.temperature_c.n

\* every populated predicate of the rule holds for the forecast
EveryPredicateHolds(rule, f, feels_like) ==
    /\ rule.min_temp_c # NoneV => f.temperature_c.n >= rule.min_temp_c.n
    /\ rule.max_temp_c # NoneV => f.temperature_c.n <= rule.max_temp_c.n
    /\ rule.min_feels_like_c # NoneV => feels_like >= rule.min_feels_like_c.n
    /\ rule.max_feels_like_c # NoneV => feels_like <= rule.max_feels_like_c.n
    /\ rule.min_wind_ms # NoneV
       => (IF f.wind # <<>> THEN f.wind[1].speed_ms.n ELSE 0) >= rule.min_wind_ms.n
    /\ rule.max_precipitation_percent # NoneV
       => (IF f.precipitation # <<>> THEN f.precipitation[1].probability_percent.n
           ELSE 0) <= rule.max_precipitation_percent.n
    /\ rule.requires_rain
       => (IF f.precipitation # <<>> THEN f.precipitation[1].probability_percent.n
           ELSE 0) >= 30
    /\ rule.requires_night
       => ~(/\ f.astronomical # <<>>
            /\ f.astronomical[1].sun_altitude_deg # NoneV
            /\ f.astronomical[1].sun_altitude_deg.n >= 0)

\* C16: matches returns True exactly when every populated predicate holds, the
\* feels-like bounds being tested on feels_like_c whenever it is present.
MatchesIffEveryPredicateHolds ==
    (call.op = "matches" /\ Returned)
    => (ret[1] <=> EveryPredicateHolds(call.rule, call.forecast,
                                       FeelsLike(call.forecast)))

\* C16 for the forecasts whose feels_like_c is not 0
MatchesIffEveryPredicateHoldsOffZero ==
    (call.op = "matches" /\ Returned /\ call.forecast.feels_like_c # Num(0))
    => (ret[1] <=> EveryPredicateHolds(call.rule, call.forecast,
                                       FeelsLike(call.forecast)))

\* a rule for feels-like temperatures of 3 and more matches an hour that feels
\* like 0
MatchedAtFeelsLikeZero ==
    /\ call.op = "matches" /\ Returned
    /\ call.forecast.feels_like_c = Num(0)
    /\ call.rule.min_feels_like_c = Num(3)
    /\ ret[1] = TRUE

(***************************************************************************)
(* SpecSlots: TimeSlotFinder.find_slots on forecasts of up to MaxSlotHours *)
(* hours, fair or overcast, one or two hours apart, for an activity that   *)
(* needs a sky at most half covered.                                       *)
(***************************************************************************)
MaxSlotHours == 5

\* Activity(id="stroll", ..., requirements=ActivityRequirements(
\*     clouds=CloudConstraints(max_total_percent=50)))
StrollActivity ==
    Activity("stroll", "Evening Stroll",
        [ActivityRequirements EXCEPT
            !.clouds = <<[CloudConstraints EXCEPT
                !.max_total_percent = Num(50)]>>])

\* Forecast(hourly=...)
Forecast(hourly) == [hourly |-> hourly]

\* the hours of a forecast: hour i is at time i * step, overcast where the
\* pattern says so
HourAt(overcast, time) ==
    IF overcast THEN [CloudyNight EXCEPT !.time = time]
    ELSE [ClearNight EXCEPT !.time = time]
Hourly(pattern, step) ==
    [i \in 1..Len(pattern) |-> HourAt(pattern[i], i * step)]

SlotForecasts ==
    { Forecast(Hourly(pattern, step)) :
        pattern \in UNION { [1..n -> BOOLEAN] : n \in 0..MaxSlotHours },
        step \in 1..2 }

\* timedelta(minutes=30), timedelta(hours=1), timedelta(minutes=90), ...
MinDurations == {30, 60, 90, 120}
PreferredDurations == {60, 90}
MaxSlotCounts == {0, 1, 2, 5}

\* what datetime.now() may return; find_slots reads the clock only for a
\* forecast without hours
Clock == {0, 7}
ClockRead(forecast) == IF forecast.hourly = <<>> THEN Clock ELSE {0}

InitSlots ==
    /\ cache = [id \in {StrollActivity.id} |-> <<>>]
    /\ memo = <<>>
    /\ ret = <<>>
    /\ call \in [op : {"find_slots"}, forecast : SlotForecasts,
                 activity : {StrollActivity}, min_duration : MinDurations,
                 preferred_duration : PreferredDurations,
                 max_slots : MaxSlotCounts, require_passing : BOOLEAN]

\* the engine's cache and the result after the call
ReturnSlots(outcome) ==
    /\ cache' = outcome.cache
    /\ ret' = <<outcome.value>>

\* finder.find_slots(forecast, activity, min_duration, preferred_duration,
\*                   max_slots, require_passing)
FindSlots ==
    /\ call.op = "find_slots"
    /\ Running
    /\ \E now \in ClockRead(call.forecast) :
           ReturnSlots(find_slots(cache, now, call.forecast, call.activity,
                                  call.min_duration, call.preferred_duration,
                                  call.max_slots, call.require_passing))
    /\ UNCHANGED <<call, memo>>

NextSlots == FindSlots

SpecSlots == InitSlots /\ [][NextSlots]_vars

\* the slots returned, none while the call runs
Slots == IF Returned THEN ret[1].slots ELSE <<>>
SlotIndices == 1..Len(Slots)

\* C17: every slot find_slots returns lasts at least min_duration (end - start
\* >= min_duration), whatever the minimum, whole hours or not.
SlotsMeetMinDuration ==
    Returned =>
        \A i \in SlotIndices : TimeSlot_duration(Slots[i]) >= call.min_duration

\* C17, for a minimum of whole hours: every slot lasts at least min_duration.
SlotsMeetWholeHourMinDuration ==
    Returned /\ call.min_duration % HourDelta = 0 =>
        \A i \in SlotIndices : TimeSlot_duration(Slots[i]) >= call.min_duration

\* a slot of one hour was returned for a minimum of 90 minutes
HourSlotForNinetyMinutes ==
    /\ Returned
    /\ call.min_duration = 90
    /\ \E i \in SlotIndices : TimeSlot_duration(Slots[i]) = 60

\* the slots of all candidate windows of the call, scored and not yet ranked
ScoredWindows(all) ==
    _score_candidates(
        _find_contiguous_slots(call.forecast.hourly, all.value,
                               call.min_duration, call.require_passing),
        call.preferred_duration)
CandidateWindows ==
    IF call.forecast.hourly = <<>> THEN <<>>
    ELSE ScoredWindows(evaluate_forecasts([id \in {call.activity.id} |-> <<>>],
                                          call.forecast.hourly, call.activity))

NoHigherScoreIn(windows, score) ==
    \A w \in 1..Len(windows) : BigCmp(windows[w].score, score) <= 0

\* C18: the slots find_slots returns are ordered by score, highest first, and
\* are at most max_slots; at most one slot has is_optimal set; when there are
\* slots it is slots[0], optimal_slot equals it, and no candidate window scores
\* higher.
SlotsRankedAndBestOptimal ==
    Returned =>
        /\ \A i, j \in SlotIndices :
               i < j => BigCmp(Slots[i].score, Slots[j].score) >= 0
        /\ Len(Slots) <= call.max_slots
        /\ Cardinality({i \in SlotIndices : Slots[i].is_optimal}) <= 1
        /\ Slots # <<>> =>
               /\ Slots[1].is_optimal
               /\ ret[1].optimal_slot = <<Slots[1]>>
               /\ NoHigherScoreIn(CandidateWindows, Slots[1].score)

\* of two candidate windows only the later one was returned, for its higher score
BetterOfTwoWindowsKept ==
    /\ Returned
    /\ call.max_slots = 1
    /\ Len(Slots) = 1
    /\ Len(CandidateWindows) = 2
    /\ Slots[1].start > CandidateWindows[1].start
    /\ BigCmp(Slots[1].score, CandidateWindows[1].score) > 0

\* hour i of the forecast of the call may be part of a window
Acceptable(i) ==
    \/ ~call.require_passing
    \/ evaluate_forecast([id \in {call.activity.id} |-> <<>>],
                         call.forecast.hourly[i], call.activity).value.passed

\* the hours i..j of the forecast of the call form a window of at least
\* min_duration
WindowMeetsMinimum(i, j) ==
    /\ \A k \in i..j : Acceptable(k)
    /\ (call.forecast.hourly[j].time + 1 - call.forecast.hourly[i].time) * HourDelta
           >= call.min_duration

NoWindowMeetsMinimum ==
    \A i, j \in 1..Len(call.forecast.hourly) : i <= j => ~WindowMeetsMinimum(i, j)

\* find_slots reports that there is no suitable slot
ReportsNoSlot ==
    /\ ret[1].no_suitable_slots
    /\ ret[1].no_slots_reason.kind = "str"
    /\ ret[1].no_slots_reason.s # ""
    /\ ret[1].slots = <<>>
    /\ ret[1].optimal_slot = <<>>

\* C19: for a forecast without hours, or without a window that meets the
\* minimum duration, find_slots returns no_suitable_slots=True, a non-empty
\* no_slots_reason, no slots and no optimal slot.
NoWindowReportsNoSlot ==
    Returned /\ NoWindowMeetsMinimum => ReportsNoSlot

\* C19, for a minimum of whole hours
NoWholeHourWindowReportsNoSlot ==
    Returned /\ call.min_duration % HourDelta = 0 /\ NoWindowMeetsMinimum
        => ReportsNoSlot

\* a slot was returned although no window lasts the 90 minutes required
SlotReturnedWithoutWindow ==
    /\ Returned
    /\ call.min_duration = 90
    /\ NoWindowMeetsMinimum
    /\ Len(Slots) = 1
    /\ ~ret[1].no_suitable_slots

\* no slot was reported for a forecast with hours: its only fair hour is
\* shorter than the two hours required
NoSlotForShortWindow ==
    /\ Returned
    /\ call.min_duration = 120
    /\ call.require_passing
    /\ \E i \in 1..Len(call.forecast.hourly) : Acceptable(i)
    /\ ReportsNoSlot

\* the indices of the hours of the forecast of the call that lie in the slot
HoursOf(slot) ==
    {i \in 1..Len(call.forecast.hourly) :
        /\ call.forecast.hourly[i].time >= slot.start
        /\ call.forecast.hourly[i].time < slot.end}

\* the evaluation score of hour i
HourScore(i) ==
    evaluate_forecast([id \in {call.activity.id} |-> <<>>],
                      call.forecast.hourly[i], call.activity).value.score

\* the sum of the scores of the hours from..to
RECURSIVE ScoreSum(_, _)
ScoreSum(from, to) ==
    IF from > to THEN BigZero ELSE FAdd(ScoreSum(from, to - 1), HourScore(to))

First(hours) == CHOOSE i \in hours : \A k \in hours : i <= k
Last(hours) == CHOOSE i \in hours : \A k \in hours : i >= k

\* avg: the mean of the hourly scores in the window
MeanScore(hours) ==
    FDiv(ScoreSum(First(hours), Last(hours)), BigInt(Cardinality(hours)))

\* f = min(1, preferred / actual) * 1.1 for a window of at least the preferred
\* length, actual / preferred for a shorter one
LengthFactor(actual, preferred) ==
    IF BigCmp(actual, preferred) >= 0
    THEN FMul(IF BigCmp(FDiv(preferred, actual), BigInt(1)) < 0
              THEN FDiv(preferred, actual) ELSE BigInt(1),
              Tenths(11))
    ELSE FDiv(actual, preferred)

\* clamp(x, 0, 100)
Clamped(x) ==
    IF BigCmp(x, BigInt(100)) > 0 THEN BigInt(100)
    ELSE IF BigCmp(x, BigZero) < 0 THEN BigZero ELSE x

ExpectedScore(slot) ==
    Clamped(FMul(MeanScore(HoursOf(slot)),
                 LengthFactor(BigInt(slot.end - slot.start),
                              FDiv(BigInt(call.preferred_duration), BigInt(60)))))

\* C20: the score of a slot is clamp(avg * f, 0, 100), avg the mean of the
\* hourly scores in its window and f = min(1, preferred / actual) * 1.1 when the
\* window is at least as long as preferred, else actual / preferred; a window
\* of exactly the preferred length with mean 100 scores 100; no score lies
\* outside [0, 100].
SlotScoreIsClampedProduct ==
    Returned =>
        \A i \in SlotIndices :
            /\ Slots[i].score = ExpectedScore(Slots[i])
            /\ BigCmp(Slots[i].score, BigZero) >= 0
            /\ BigCmp(Slots[i].score, BigInt(100)) <= 0
            /\ (/\ TimeSlot_duration(Slots[i]) = call.preferred_duration
                /\ MeanScore(HoursOf(Slots[i])) = BigInt(100))
               => Slots[i].score = BigInt(100)

\* a window of exactly the preferred length with mean 100 scored 100, next to a
\* longer window of the same mean that scored less and a shorter one
ExactLengthScoredFull ==
    /\ Returned
    /\ \E i, j \in SlotIndices :
           /\ TimeSlot_duration(Slots[i]) = call.preferred_duration
           /\ Slots[i].score = BigInt(100)
           /\ TimeSlot_duration(Slots[j]) > call.preferred_duration
           /\ MeanScore(HoursOf(Slots[j])) = BigInt(100)
           /\ BigCmp(Slots[j].score, BigInt(100)) < 0

\* a window shorter than preferred, with an hour that failed in it, scored its
\* mean times actual / preferred
ShortWindowScoredLess ==
    /\ Returned
    /\ \E i \in SlotIndices :
           /\ TimeSlot_duration(Slots[i]) < call.preferred_duration
           /\ BigCmp(MeanScore(HoursOf(Slots[i])), BigInt(100)) < 0
           /\ BigCmp(Slots[i].score, MeanScore(HoursOf(Slots[i]))) < 0
           /\ BigCmp(Slots[i].score, BigZero) > 0

\* C28: the recommendation find_slots returns has no_suitable_slots set exactly
\* when its slots list is empty, and no optimal slot exactly when its slots
\* list is empty, for every max_slots, 0 included.
NoSuitableIffNoSlots ==
    Returned =>
        /\ ret[1].no_suitable_slots <=> Slots = <<>>
        /\ ret[1].optimal_slot = <<>> <=> Slots = <<>>

\* C28, for a max_slots of at least 1
NoSuitableIffNoSlotsOfSome ==
    Returned /\ call.max_slots >= 1 =>
        /\ ret[1].no_suitable_slots <=> Slots = <<>>
        /\ ret[1].optimal_slot = <<>> <=> Slots = <<>>

\* C28: the optimal slot alone is absent exactly when there are no slots
NoOptimalIffNoSlots ==
    Returned => (ret[1].optimal_slot = <<>> <=> Slots = <<>>)

\* with max_slots = 0 a forecast with a candidate window gave no slots, and
\* no_suitable_slots stayed False
NoSlotsYetSuitable ==
    /\ Returned
    /\ call.max_slots = 0
    /\ CandidateWindows # <<>>
    /\ Slots = <<>>
    /\ ~ret[1].no_suitable_slots

\* the evaluation of hour i of the forecast of the call passed
HourPassed(i) ==
    evaluate_forecast([id \in {call.activity.id} |-> <<>>],
                      call.forecast.hourly[i], call.activity).value.passed

\* the candidates _find_contiguous_slots yields for the call
CandidatesOf(all) ==
    _find_contiguous_slots(call.forecast.hourly, all.value, call.min_duration,
                           call.require_passing)
Candidates ==
    CandidatesOf(evaluate_forecasts([id \in {call.activity.id} |-> <<>>],
                                    call.forecast.hourly, call.activity))

NHours == Len(call.forecast.hourly)

\* the hours first..last (counted from 1) are a maximal run of passing hours
MaximalRun(first, last) ==
    /\ first <= last
    /\ \A i \in first..last : HourPassed(i)
    /\ first = 1 \/ ~HourPassed(first - 1)
    /\ last = NHours \/ ~HourPassed(last + 1)

\* a candidate of the list covers exactly the hours first..last
IsCandidate(candidates, first, last) ==
    \E k \in 1..Len(candidates) :
        /\ candidates[k].start_idx = first - 1
        /\ candidates[k].end_idx = last - 1

\* the candidates in chronological order, no two overlapping
InOrder(candidates) ==
    \A k, l \in 1..Len(candidates) :
        k < l => candidates[k].end_idx < candidates[l].start_idx

\* with require_passing the candidates are the maximal runs of passing hours of
\* at least the minimum number of hours
CandidatesAreLongRuns(candidates) ==
    /\ InOrder(candidates)
    /\ \A k \in 1..Len(candidates) :
           MaximalRun(candidates[k].start_idx + 1, candidates[k].end_idx + 1)
    /\ \A first, last \in 1..NHours :
           MaximalRun(first, last) =>
               (IsCandidate(candidates, first, last)
                    <=> (last - first + 1) * HourDelta
                            >= (call.min_duration \div HourDelta) * HourDelta)

\* without require_passing there is one candidate, the whole forecast
WholeForecast(candidates) ==
    /\ Len(candidates) = 1
    /\ candidates[1].start_idx = 0
    /\ candidates[1].end_idx = NHours - 1

WindowsAsClaimed(candidates) ==
    IF call.require_passing THEN CandidatesAreLongRuns(candidates)
    ELSE WholeForecast(candidates)

WindowsAsFound(candidates) ==
    IF call.require_passing THEN CandidatesAreLongRuns(candidates)
    ELSE IF NHours >= call.min_duration \div HourDelta
         THEN WholeForecast(candidates)
         ELSE candidates = <<>>

\* C25: for a forecast with hours, with require_passing the candidate windows
\* do not overlap, are in chronological order, hold only passing hours, are
\* maximal, and are exactly the maximal runs of at least the minimum number of
\* hours; without require_passing there is a single window covering the whole
\* forecast.
WindowsAreMaximalRunsOrWhole ==
    Returned /\ NHours >= 1 => WindowsAsClaimed(Candidates)

\* C25, amended: without require_passing the whole forecast is a window
\* exactly when it has at least the minimum number of hours, and there is no
\* window otherwise.
WindowsAreMaximalRunsOrWholeIfLong ==
    Returned /\ NHours >= 1 => WindowsAsFound(Candidates)

\* two runs of passing hours, the first too short to be a candidate, gave one
\* window
ShortRunLeftOut ==
    /\ Returned
    /\ call.require_passing
    /\ call.min_duration = 120
    /\ NHours = 4
    /\ MaximalRun(1, 1)
    /\ MaximalRun(3, 4)
    /\ Len(Candidates) = 1
    /\ Candidates[1].start_idx = 2

\* without require_passing a forecast of one hour gave no window for a minimum
\* of two hours
WholeForecastTooShort ==
    /\ Returned
    /\ ~call.require_passing
    /\ NHours = 1
    /\ call.min_duration = 120
    /\ Candidates = <<>>

\* C29: every category in which an exclusive rule matches the forecast
\* receives exactly one item from an exclusive rule of that category, also
\* when a matching rule that is not exclusive comes first in the category.
OneExclusiveItemPerMatchedCategory ==
    (call.op = "recommend" /\ Returned)
    => \A c \in GearCategories :
           MatchingExclusive(c) # {} => Len(FromExclusive(ItemsOf(c))) = 1

\* C29, for the categories whose matching rules that are not exclusive all
\* come after the first matching exclusive rule
OneExclusiveItemWhereExclusiveFirst ==
    (call.op = "recommend" /\ Returned)
    => \A c \in GearCategories :
           (/\ MatchingExclusive(c) # {}
            /\ \E i \in MatchingExclusive(c) :
                   \A j \in RuleIndices :
                       (/\ RuleMatches(j)
                        /\ ~call.recommender.rules[j].exclusive
                        /\ call.recommender.rules[j].item.category = c)
                       => Before(i, j))
           => Len(FromExclusive(ItemsOf(c))) = 1

\* the cyclist's legs at 13 degrees got the Knee Warmers alone: the Bib Tights,
\* the only matching exclusive rule, were left out
LegsWithoutBibTights ==
    /\ call.op = "recommend" /\ Returned
    /\ call.recommender.rules = CyclingLegRules
    /\ call.forecast.temperature_c = Num(13)
    /\ MatchingExclusive("legs") = {3}
    /\ ItemsOf("legs") = <<CyclingLegRules[2].item>>


(***************************************************************************)
(* Condition.evaluate on a comparison value of the wrong shape             *)
(***************************************************************************)
\* the comparison value is a two-element pair, the shape `between` expects
IsPair(e) == e.kind = "list" /\ Len(e.items) = 2

\* the call applied `between` to a present actual value and a comparison
\* value that is not a pair
BetweenOnNonPair ==
    /\ call.op = "evaluate" /\ Returned
    /\ call.cond.operator = "between"
    /\ ~IsPair(call.cond.value)
    /\ _extract_value(call.cond.type, call.forecast) # NoneV

\* the result Condition.evaluate returns for a condition that simply failed
OrdinaryFailure ==
    ConditionResult(call.cond, _extract_value(call.cond.type, call.forecast), FALSE)

\* C23: evaluating a Condition whose operator/value shape is invalid (operator
\* between with a value that is not a two-element pair) raises an error and is
\* thereby distinguishable from an ordinary failed condition: the call does not
\* return the result of a failed condition.
InvalidShapeDistinguishable ==
    BetweenOnNonPair => ret[1] # OrdinaryFailure

\* `between` met the number 10 as comparison value: e[0] raised TypeError inside
\* _compare, and evaluate returned the result of an ordinary failed condition
BetweenScalarFailedQuietly ==
    /\ BetweenOnNonPair
    /\ call.cond.value = Num(10)
    /\ comparator("between", ret[1].actual_value, call.cond.value) = Raises("TypeError")
    /\ ret[1] = OrdinaryFailure
    /\ ret[1].passed = FALSE

\* `between` met a one-element list: e[1] raised IndexError inside _compare, and
\* evaluate returned the result of an ordinary failed condition
BetweenShortListFailedQuietly ==
    /\ BetweenOnNonPair
    /\ call.cond.value = List(<<Num(0)>>)
    /\ comparator("between", ret[1].actual_value, call.cond.value) = Raises("IndexError")
    /\ ret[1] = OrdinaryFailure


(***************************************************************************)
(* SpecRedef: evaluate_forecast, find_best_time and make_decision on       *)
(* RuleEngine instances, called with an activity and with a redefinition   *)
(* of it: an Activity of the same id and other requirements.               *)
(***************************************************************************)
\* Activity(id="moonless", ..., requirements=ActivityRequirements(
\*     clouds=CloudConstraints(max_total_percent=50)))
RedefinedActivity ==
    Activity("moonless", "Moonless Walk",
        [ActivityRequirements EXCEPT
            !.clouds = <<[CloudConstraints EXCEPT
                !.max_total_percent = Num(50)]>>])

Definitions == {MoonlessActivity, RedefinedActivity}

RedefCalls ==
    [op : {"evaluate_forecast", "make_decision"}, engine : Engines,
     forecast : Forecasts, activity : Definitions]
    \cup [op : {"find_best_time"}, engine : Engines, forecasts : ForecastLists,
          activity : Definitions, require_passing : BOOLEAN]

InvokeRedef == \E c \in RedefCalls : Invoke(c)

NextRedef ==
    \/ InvokeRedef
    \/ EvaluateForecast
    \/ MakeDecision
    \/ FindBestTime

SpecRedef == Init /\ [][NextRedef]_vars

\* RuleEngine()._condition_cache
FreshCache == [id \in ActivityIds |-> <<>>]

\* what the call returns on an engine that has cached nothing: the conditions
\* are derived from the requirements of the activity passed to the call
FreshResult ==
    CASE call.op = "evaluate_forecast" ->
            evaluate_forecast(FreshCache, call.forecast, call.activity).value
      [] call.op = "make_decision" ->
            make_decision(FreshCache, call.forecast, call.activity).value
      [] call.op = "find_best_time" ->
            find_best_time(FreshCache, call.forecasts, call.activity,
                           call.require_passing).value

\* C27: after any sequence of evaluate_forecast, find_best_time and
\* make_decision calls on one RuleEngine, a call uses the conditions derived
\* from the requirements of the activity passed to it: it returns what an engine
\* without cached lists returns, also when the activity was redefined.
EvaluationReflectsCurrentRequirements ==
    (call # NoCall /\ Returned) => ret[1] = FreshResult

\* the engine evaluated under the first definition (a moon of at most 50
\* percent), then the redefined activity (clouds of at most 50 percent) on an
\* overcast night: the evaluation used the cached list of the first definition
\* and passed, where the requirements passed to the call are not met
RedefinitionEvaluatedStale ==
    /\ call.op = "evaluate_forecast" /\ Returned
    /\ call.activity = RedefinedActivity
    /\ call.forecast = CloudyNight
    /\ cache[call.engine]["moonless"]
          = <<requirements_to_conditions(MoonlessActivity.requirements)>>
    /\ ret[1].passed
    /\ ~FreshResult.passed

\* what does hold: a call uses the list the engine holds for the activity's id,
\* which is the list of the first definition the engine met
UsesListOfFirstDefinition ==
    (call.op = "evaluate_forecast" /\ Returned)
    => /\ cache[call.engine][call.activity.id] # <<>>
       /\ ret[1] = evaluate_conditions(call.forecast,
                                      cache[call.engine][call.activity.id][1])


(***************************************************************************)
(* SpecThreads: two threads call evaluate_forecast on one shared           *)
(* RuleEngine.  `cache` is the engine's _condition_cache, call[t] the      *)
(* arguments of thread t, memo[t] its position and locals, ret[t] its      *)
(* result.  A step is one access to the shared dict or one call of a pure  *)
(* function on locals; the interpreter runs the steps of the two threads   *)
(* in any order.                                                           *)
(***************************************************************************)
NThreads == 2
Threads == 1..NThreads

\* activity.id not in self._condition_cache
NotCached(c, activity) == c[activity.id] = <<>>

\* a store that extends the list the dict already holds for the id
StoreComputed_extending(c, activity, conditions) ==
    [c EXCEPT ![activity.id] = IF @ = <<>> THEN <<conditions>>
                               ELSE <<@[1] \o conditions>>]

\* self._condition_cache[activity.id] = <the list computed>
StoreComputed(c, activity, conditions) ==
    [c EXCEPT ![activity.id] = <<conditions>>]

\* the locals of a thread entering evaluate_forecast
Entered == [pc |-> "check", computed |-> <<>>, conditions |-> <<>>]

\* the cache of an engine after earlier calls: an id has no list or the list of
\* its activity
EarlierCaches ==
    { [id \in ActivityIds |->
          IF id \in ids
          THEN <<requirements_to_conditions(
                    (CHOOSE a \in Activities : a.id = id).requirements)>>
          ELSE <<>>] : ids \in SUBSET ActivityIds }

InitThreads ==
    /\ cache \in EarlierCaches
    /\ call \in [Threads -> [op : {"evaluate_forecast"}, forecast : Forecasts,
                             activity : Activities]]
    /\ memo = [t \in Threads |-> Entered]
    /\ ret = [t \in Threads |-> <<>>]

\* if activity.id not in self._condition_cache:
CheckCache(t) ==
    /\ memo[t].pc = "check"
    /\ memo' = [memo EXCEPT ![t].pc =
                   IF NotCached(cache, call[t].activity) THEN "compute" ELSE "read"]
    /\ UNCHANGED <<cache, call, ret>>

\* self.requirements_to_conditions(activity.requirements)
ComputeConditions(t) ==
    /\ memo[t].pc = "compute"
    /\ memo' = [memo EXCEPT
                   ![t].pc = "store",
                   ![t].computed =
                       <<requirements_to_conditions(call[t].activity.requirements)>>]
    /\ UNCHANGED <<cache, call, ret>>

\* self._condition_cache[activity.id] = ...
StoreInCache(t) ==
    /\ memo[t].pc = "store"
    /\ cache' = StoreComputed(cache, call[t].activity, memo[t].computed[1])
    /\ memo' = [memo EXCEPT ![t].pc = "read"]
    /\ UNCHANGED <<call, ret>>

\* return self._condition_cache[activity.id]; conditions = ...
ReadCache(t) ==
    /\ memo[t].pc = "read"
    /\ memo' = [memo EXCEPT ![t].pc = "evaluate",
                            ![t].conditions = cache[call[t].activity.id]]
    /\ UNCHANGED <<cache, call, ret>>

\* return evaluate_conditions(forecast, conditions)
EvaluateRead(t) ==
    /\ memo[t].pc = "evaluate"
    /\ ret' = [ret EXCEPT ![t] =
                  <<evaluate_conditions(call[t].forecast, memo[t].conditions[1])>>]
    /\ memo' = [memo EXCEPT ![t].pc = "done"]
    /\ UNCHANGED <<cache, call>>

NextThreads ==
    \E t \in Threads :
        \/ CheckCache(t)
        \/ ComputeConditions(t)
        \/ StoreInCache(t)
        \/ ReadCache(t)
        \/ EvaluateRead(t)

SpecThreads == InitThreads /\ [][NextThreads]_vars

\* what the call of thread t returns when it runs alone on a new engine
Alone(t) ==
    evaluate_forecast(FreshCache, call[t].forecast, call[t].activity).value

AllDone == \A t \in Threads : memo[t].pc = "done"

\* C24: under every interleaving of two concurrent evaluate_forecast calls on
\* one shared RuleEngine, each call returns the score, passed flag and blocking
\* conditions it returns when run alone, and once both have returned the cache
\* holds for each activity id exactly one list, equal to
\* requirements_to_conditions of that activity.
ConcurrentCallsAsAlone ==
    /\ \A t \in Threads :
          memo[t].pc = "done"
          => /\ ret[t][1].score = Alone(t).score
             /\ ret[t][1].passed = Alone(t).passed
             /\ ret[t][1].blocking_conditions = Alone(t).blocking_conditions
    /\ AllDone =>
          \A t \in Threads :
             cache[call[t].activity.id]
                = <<requirements_to_conditions(call[t].activity.requirements)>>

\* both threads found the cache empty for the same activity id, both stored a
\* list, and both have returned
BothInsertedSameId ==
    /\ AllDone
    /\ call[1].activity = call[2].activity
    /\ \A t \in Threads : memo[t].computed # <<>>
    /\ \A t \in Threads : ret[t] # <<>>


(***************************************************************************)
(* astronomy/calculator.py                                                 *)
(*                                                                         *)
(* Times are instants counted in units of 1/32 of the sample interval of   *)
(* 15 minutes (28.125 s), so that every midpoint the bisection takes is a  *)
(* whole number of units, as it is a whole number of microseconds in       *)
(* Python.  Altitudes are in microdegrees.  An optional datetime is <<>>   *)
(* (None) or <<t>>.                                                        *)
(***************************************************************************)
UnitMillis == 28125
MinuteMillis == 60000
\* sample_interval = timedelta(minutes=15)
SampleInterval == 32
HourUnits == 128
\* timedelta(days=1)
DayUnits == 3072
Degree == 1000000

NoTime == <<>>
At(t) == <<t>>

\* the altitude of the sun over a place as astropy computes it from the
\* coordinates: highest (peak) at the place's solar noon, falling by `rate` per
\* unit of time away from it, and drifting with the season by `drift` per unit
SunOver(peak, rate, noon, drift) ==
    [peak |-> peak, rate |-> rate, noon |-> noon, drift |-> drift]

\* the time between t and the nearest solar noon
FromNoon(coords, t) ==
    LET phase == (t - coords.noon + DayUnits) % DayUnits
    IN  IF phase <= DayUnits \div 2 THEN phase ELSE DayUnits - phase

\* get_altitude(dt) of _find_altitude_crossing, body = "sun"
get_altitude(coords, t) ==
    coords.peak - coords.rate * FromNoon(coords, t) + coords.drift * t

\* rising and prev_alt < target_altitude <= curr_alt, or
\* not rising and prev_alt > target_altitude >= curr_alt
crossed(rising, prev_alt, target_altitude, curr_alt) ==
    IF rising THEN prev_alt < target_altitude /\ target_altitude <= curr_alt
    ELSE prev_alt > target_altitude /\ target_altitude >= curr_alt

\* (high_time - low_time) > timedelta(minutes=tolerance_minutes)
WiderThanTolerance(low_time, high_time, tolerance_minutes) ==
    (high_time - low_time) * UnitMillis > tolerance_minutes * MinuteMillis

\* low_time + (high_time - low_time) / 2
mid_time(low_time, high_time) == low_time + (high_time - low_time) \div 2

\* a bisection step that moves the other end of the bracket
Narrow_other_end(coords, low_time, high_time, target_altitude, rising) ==
    IF rising
    THEN IF get_altitude(coords, mid_time(low_time, high_time)) < target_altitude
         THEN <<low_time, mid_time(low_time, high_time)>>
         ELSE <<mid_time(low_time, high_time), high_time>>
    ELSE IF get_altitude(coords, mid_time(low_time, high_time)) > target_altitude
         THEN <<low_time, mid_time(low_time, high_time)>>
         ELSE <<mid_time(low_time, high_time), high_time>>

\* one pass of the bisection loop: <<low_time, high_time>> afterwards
Narrow(coords, low_time, high_time, target_altitude, rising) ==
    IF rising
    THEN IF get_altitude(coords, mid_time(low_time, high_time)) < target_altitude
         THEN <<mid_time(low_time, high_time), high_time>>
         ELSE <<low_time, mid_time(low_time, high_time)>>
    ELSE IF get_altitude(coords, mid_time(low_time, high_time)) > target_altitude
         THEN <<mid_time(low_time, high_time), high_time>>
         ELSE <<low_time, mid_time(low_time, high_time)>>

\* while (high_time - low_time) > tolerance: ...; return the midpoint
RECURSIVE Refine(_, _, _, _, _, _)
Refine(coords, low_time, high_time, target_altitude, rising, tolerance_minutes) ==
    IF WiderThanTolerance(low_time, high_time, tolerance_minutes)
    THEN LET next == Narrow(coords, low_time, high_time, target_altitude, rising)
         IN  Refine(coords, next[1], next[2], target_altitude, rising,
                    tolerance_minutes)
    ELSE mid_time(low_time, high_time)

\* the passes of the sampling loop, numbered from 0: pass k compares the sample
\* at current + k * sample_interval with the sample one interval later
Passes(current, end_time_) ==
    0..((end_time_ - current + SampleInterval - 1) \div SampleInterval - 1)

CrossedIn(coords, current, k, target_altitude, rising) ==
    crossed(rising, get_altitude(coords, current + k * SampleInterval),
            target_altitude,
            get_altitude(coords, current + (k + 1) * SampleInterval))

\* the first pass that finds a bracket, refined
FirstCrossing(coords, current, found, target_altitude, rising, tolerance_minutes) ==
    IF found = {} THEN NoTime
    ELSE LET first == CHOOSE k \in found : \A j \in found : k <= j
         IN  At(Refine(coords, current + first * SampleInterval,
                       current + (first + 1) * SampleInterval,
                       target_altitude, rising, tolerance_minutes))

\* while current < end_time: current += sample_interval; ...; return None
Scan(coords, current, end_time_, target_altitude, rising, tolerance_minutes) ==
    FirstCrossing(coords, current,
                  {k \in Passes(current, end_time_) :
                      CrossedIn(coords, current, k, target_altitude, rising)},
                  target_altitude, rising, tolerance_minutes)

_find_altitude_crossing(coords, start, end, target_altitude, rising, tolerance_minutes) ==
    Scan(coords, start, end, target_altitude, rising, tolerance_minutes)

(***************************************************************************)
(* SpecCrossing: one call of _find_altitude_crossing, a pass of one of its *)
(* two loops per step.  memo holds the locals of the call.                 *)
(***************************************************************************)
\* a summer day at mid latitude, the midnight sun, the polar night with a
\* twilight at noon, a night that stays within nautical twilight, and the
\* first day of the midnight sun
Suns ==
    {SunOver(72 * Degree, 64000, noon, 0) : noon \in {1536, 2176, 64}}
    \cup {SunOver(40 * Degree, 20000, 1536, 0),
          SunOver(-5 * Degree, 20000, 1536, 0),
          SunOver(50 * Degree, 40000, 1536, 0),
          SunOver(19518000, 13000, 1536, 100)}

TargetAltitudes == {0, -6 * Degree, -12 * Degree, -18 * Degree, 20 * Degree}
ToleranceMinutes == {1, 5, 15}

InitCrossing ==
    /\ cache = NoCaches
    /\ ret = <<>>
    /\ call \in [op : {"_find_altitude_crossing"}, coords : Suns,
                 start_time : {0}, end_time : {DayUnits},
                 target_altitude : TargetAltitudes, rising : BOOLEAN,
                 tolerance_minutes : ToleranceMinutes]
    /\ memo = [pc |-> "scan", current |-> call.start_time,
               prev_time |-> call.start_time,
               low_time |-> call.start_time, high_time |-> call.start_time]

\* a pass of the sampling loop: the next sample, and the bracket if it crossed
SampleNext ==
    /\ memo.pc = "scan"
    /\ memo.current < call.end_time
    /\ LET current == memo.current + SampleInterval
       IN  memo' =
             IF crossed(call.rising, get_altitude(call.coords, memo.prev_time),
                        call.target_altitude, get_altitude(call.coords, current))
             THEN [memo EXCEPT !.pc = "bisect", !.current = current,
                               !.low_time = memo.prev_time, !.high_time = current]
             ELSE [memo EXCEPT !.current = current, !.prev_time = current]
    /\ UNCHANGED <<cache, call, ret>>

\* the sampling loop ends without a bracket: return None
ReturnNone ==
    /\ memo.pc = "scan"
    /\ ~(memo.current < call.end_time)
    /\ memo' = [memo EXCEPT !.pc = "done"]
    /\ ret' = <<NoTime>>
    /\ UNCHANGED <<cache, call>>

\* a pass of the bisection loop
Bisect ==
    /\ memo.pc = "bisect"
    /\ WiderThanTolerance(memo.low_time, memo.high_time, call.tolerance_minutes)
    /\ LET next == Narrow(call.coords, memo.low_time, memo.high_time,
                          call.target_altitude, call.rising)
       IN  memo' = [memo EXCEPT !.low_time = next[1], !.high_time = next[2]]
    /\ UNCHANGED <<cache, call, ret>>

\* return low_time + (high_time - low_time) / 2
ReturnMidpoint ==
    /\ memo.pc = "bisect"
    /\ ~WiderThanTolerance(memo.low_time, memo.high_time, call.tolerance_minutes)
    /\ memo' = [memo EXCEPT !.pc = "done"]
    /\ ret' = <<At(mid_time(memo.low_time, memo.high_time))>>
    /\ UNCHANGED <<cache, call>>

NextCrossing ==
    \/ SampleNext
    \/ ReturnNone
    \/ Bisect
    \/ ReturnMidpoint

SpecCrossing == InitCrossing /\ [][NextCrossing]_vars

\* the call runs alone in its thread: a loop that can take a pass takes it
SpecCrossingFair == SpecCrossing /\ WF_vars(NextCrossing)

\* the altitude a is on the side of the target the search starts from
StartingSide(a) ==
    IF call.rising THEN a < call.target_altitude ELSE a > call.target_altitude

\* the sample times of the day, and the first whose interval brackets the target
SampleTimes ==
    {call.start_time + k * SampleInterval :
        k \in 0..((call.end_time - call.start_time) \div SampleInterval - 1)}

Brackets(s) ==
    /\ StartingSide(get_altitude(call.coords, s))
    /\ ~StartingSide(get_altitude(call.coords, s + SampleInterval))

FirstBracket ==
    CHOOSE s \in SampleTimes :
        Brackets(s) /\ \A r \in SampleTimes : r < s => ~Brackets(r)

\* the bracket of the bisection: low_time on the starting side, high_time on or
\* past the target, both within the 15 minutes of the first crossing of the day
BracketKept ==
    memo.pc = "bisect"
    => /\ StartingSide(get_altitude(call.coords, memo.low_time))
       /\ ~StartingSide(get_altitude(call.coords, memo.high_time))
       /\ FirstBracket <= memo.low_time
       /\ memo.low_time < memo.high_time
       /\ memo.high_time <= FirstBracket + SampleInterval

\* a pass of the bisection loop leaves a bracket of half the width
BracketHalved ==
    (memo.pc = "bisect" /\ memo'.pc = "bisect")
    => 2 * (memo'.high_time - memo'.low_time) = memo.high_time - memo.low_time

\* the loop is left exactly when the bracket is no wider than the tolerance, and
\* the call returns the midpoint of that bracket, a time inside it
MidpointReturned ==
    (memo.pc = "done" /\ ret[1] # NoTime)
    => /\ (memo.high_time - memo.low_time) * UnitMillis
             <= call.tolerance_minutes * MinuteMillis
       /\ 2 * (memo.high_time - memo.low_time) * UnitMillis
             > call.tolerance_minutes * MinuteMillis
          \/ memo.high_time - memo.low_time = SampleInterval
       /\ 2 * ret[1][1] = memo.low_time + memo.high_time
       /\ FirstBracket <= ret[1][1]
       /\ ret[1][1] <= FirstBracket + SampleInterval

\* C26: in _find_altitude_crossing, once a bracket is detected the bisection
\* loop keeps the altitude at low_time on the starting side of the target and
\* the altitude at high_time on or past it, halves the bracket each step,
\* terminates when the bracket is at most the tolerance wide, and returns the
\* midpoint of the final bracket, which lies inside the 15-minute bracket of the
\* first crossing found in the day.
BisectionKeepsBracketAndTerminates ==
    /\ [](BracketKept /\ MidpointReturned)
    /\ [][BracketHalved]_vars
    /\ <>(memo.pc = "done")

\* a rising search at the default tolerance of one minute took its four passes
\* and returned the midpoint of a bracket of 56.25 seconds
RisingCrossingRefined ==
    /\ memo.pc = "done"
    /\ call.rising /\ call.tolerance_minutes = 1
    /\ ret[1] # NoTime
    /\ memo.high_time - memo.low_time = 2
    /\ ret[1][1] = memo.low_time + 1
    /\ memo.low_time > FirstBracket
    /\ memo.high_time < FirstBracket + SampleInterval

\* the step model returns what the function computes
CrossingAsComputed ==
    memo.pc = "done"
    => ret[1] = _find_altitude_crossing(call.coords, call.start_time, call.end_time,
                    call.target_altitude, call.rising, call.tolerance_minutes)


(***************************************************************************)
(* get_twilight_times, get_sun_altitude_time and AstronomyCalculator       *)
(*                                                                         *)
(* A datetime is the calendar day, the time of day and the UTC offset of   *)
(* its time zone; the instant it denotes is what astropy's Time(dt) and    *)
(* the comparison of aware datetimes see.                                  *)
(***************************************************************************)
DateTime(day, time, utcoffset) == [day |-> day, time |-> time, utcoffset |-> utcoffset]

Instant(dt) == dt.day * DayUnits + dt.time - dt.utcoffset

\* date.replace(hour=0, minute=0, second=0, microsecond=0)
Midnight(date) == [date EXCEPT !.time = 0]

\* solar noon taken from whichever of sunrise and sunset is there
solar_noon_of_either(sunrise, sunset) ==
    IF sunrise # NoTime /\ sunset # NoTime
    THEN At(sunrise[1] + (sunset[1] - sunrise[1]) \div 2)
    ELSE IF sunrise # NoTime THEN sunrise ELSE sunset

\* solar_noon = None; if sunrise and sunset: sunrise + (sunset - sunrise) / 2
solar_noon(sunrise, sunset) ==
    IF sunrise # NoTime /\ sunset # NoTime
    THEN At(sunrise[1] + (sunset[1] - sunrise[1]) \div 2)
    ELSE NoTime

\* _find_altitude_crossing(coords, start, end, target, rising=..., body="sun")
SunCrossing(coords, start, target_altitude, rising) ==
    _find_altitude_crossing(coords, start, start + DayUnits, target_altitude, rising, 1)

\* TwilightTimes(date=date, sunrise=sunrise, ...)
TwilightTimes(date, sunrise, sunset, noon, civil, nautical, astro) ==
    [date |-> date, sunrise |-> sunrise, sunset |-> sunset, solar_noon |-> noon,
     civil_twilight_start |-> civil[1], civil_twilight_end |-> civil[2],
     nautical_twilight_start |-> nautical[1], nautical_twilight_end |-> nautical[2],
     astronomical_twilight_start |-> astro[1], astronomical_twilight_end |-> astro[2]]

\* the rising and the setting crossing of an altitude
BothCrossings(coords, start, target_altitude) ==
    <<SunCrossing(coords, start, target_altitude, TRUE),
      SunCrossing(coords, start, target_altitude, FALSE)>>

TwilightOf(date, horizon, noon, civil, nautical, astro) ==
    TwilightTimes(date, horizon[1], horizon[2], noon, civil, nautical, astro)

TwilightFrom(coords, date, start, horizon) ==
    TwilightOf(date, horizon, solar_noon(horizon[1], horizon[2]),
               BothCrossings(coords, start, -6 * Degree),
               BothCrossings(coords, start, -12 * Degree),
               BothCrossings(coords, start, -18 * Degree))

\* get_twilight_times(coords, date)
get_twilight_times(coords, date) ==
    TwilightFrom(coords, date, Instant(Midnight(date)),
                 BothCrossings(coords, Instant(Midnight(date)), 0))

\* get_sun_altitude_time(coords, date, target_altitude, rising)
get_sun_altitude_time(coords, date, target_altitude, rising) ==
    SunCrossing(coords, Instant(Midnight(date)), target_altitude, rising)

\* cache_key = date.date().isoformat()
cache_key(date) == date.day

\* AstronomyCalculator(coordinates)
AstronomyCalculator(coordinates, days) ==
    [coordinates |-> coordinates, _twilight_cache |-> [k \in days |-> <<>>]]

\* if cache_key not in self._twilight_cache: self._twilight_cache[cache_key] = ...
StoreTwilight(calc, date) ==
    IF calc._twilight_cache[cache_key(date)] = <<>>
    THEN [calc EXCEPT !._twilight_cache[cache_key(date)] =
             <<get_twilight_times(calc.coordinates, date)>>]
    ELSE calc

\* return self._twilight_cache[cache_key]
CachedTwilight(calc, date) ==
    [cache |-> calc, value |-> calc._twilight_cache[cache_key(date)][1]]

\* AstronomyCalculator.get_twilight_times(date)
cached_twilight_times(calc, date) == CachedTwilight(StoreTwilight(calc, date), date)

(***************************************************************************)
(* SpecTwilight: one AstronomyCalculator, and calls of its                 *)
(* get_twilight_times and of the functions get_twilight_times and          *)
(* get_sun_altitude_time with its coordinates, in any order.               *)
(***************************************************************************)
NDays == 2
Days == 1..NDays

\* midnight and noon in UTC, midnight at UTC-5 and at UTC+12
Dates ==
    {DateTime(d, x[1], x[2]) :
        d \in Days,
        x \in {<<0, 0>>, <<12 * HourUnits, 0>>, <<0, -5 * HourUnits>>,
               <<0, 12 * HourUnits>>}}

TwilightCalls ==
    [op : {"get_twilight_times", "AstronomyCalculator.get_twilight_times"},
     date : Dates]
    \cup [op : {"get_sun_altitude_time"}, date : Dates,
          target_altitude : {0, 20 * Degree}, rising : BOOLEAN]

InitTwilight ==
    /\ cache \in {AstronomyCalculator(coords, Days) : coords \in Suns}
    /\ call = NoCall
    /\ ret = <<>>
    /\ memo = <<>>

InvokeTwilight == \E c \in TwilightCalls : Invoke(c)

GetTwilightTimes ==
    /\ call.op = "get_twilight_times" /\ Running
    /\ ret' = <<get_twilight_times(cache.coordinates, call.date)>>
    /\ UNCHANGED <<cache, call, memo>>

GetSunAltitudeTime ==
    /\ call.op = "get_sun_altitude_time" /\ Running
    /\ ret' = <<get_sun_altitude_time(cache.coordinates, call.date,
                                      call.target_altitude, call.rising)>>
    /\ UNCHANGED <<cache, call, memo>>

CalculatorTwilightTimes ==
    /\ call.op = "AstronomyCalculator.get_twilight_times" /\ Running
    /\ cache' = cached_twilight_times(cache, call.date).cache
    /\ ret' = <<cached_twilight_times(cache, call.date).value>>
    /\ UNCHANGED <<call, memo>>

NextTwilight ==
    \/ InvokeTwilight
    \/ GetTwilightTimes
    \/ GetSunAltitudeTime
    \/ CalculatorTwilightTimes

SpecTwilight == InitTwilight /\ [][NextTwilight]_vars


\* the events of a TwilightTimes in the order of a day, morning to evening
EventsInDayOrder(tw) ==
    <<tw.astronomical_twilight_start, tw.nautical_twilight_start,
      tw.civil_twilight_start, tw.sunrise, tw.solar_noon, tw.sunset,
      tw.civil_twilight_end, tw.nautical_twilight_end,
      tw.astronomical_twilight_end>>

AllDefined(events) == \A i \in 1..Len(events) : events[i] # NoTime

StrictlyOrdered(events) ==
    \A i \in 1..(Len(events) - 1) : events[i][1] < events[i + 1][1]

\* C21: whenever all events of the twilight times computed by
\* get_twilight_times are defined they are strictly ordered: astronomical,
\* nautical and civil twilight start, sunrise, solar noon, sunset, civil,
\* nautical and astronomical twilight end; solar noon lies strictly between
\* sunrise and sunset.
TwilightEventsOrdered ==
    (call.op = "get_twilight_times" /\ Returned
        /\ AllDefined(EventsInDayOrder(ret[1])))
    => StrictlyOrdered(EventsInDayOrder(ret[1]))

\* a UTC day over a place whose solar noon is at 17:00 UTC: every event is
\* defined, the sunset found is the one shortly after 00:00 UTC, before the
\* sunrise, and the solar noon reported lies in the night between them
SunsetBeforeSunrise ==
    /\ call.op = "get_twilight_times" /\ Returned
    /\ call.date.utcoffset = 0
    /\ cache.coordinates.noon = 17 * HourUnits
    /\ AllDefined(EventsInDayOrder(ret[1]))
    /\ ret[1].sunset[1] < ret[1].solar_noon[1]
    /\ ret[1].solar_noon[1] < ret[1].sunrise[1]
    /\ get_altitude(cache.coordinates, ret[1].solar_noon[1]) < 0

\* the day begins in the night, before the astronomical dawn and after the
\* astronomical dusk: the sun is more than 18 degrees below the horizon at both
\* ends of the day searched
DayBeginsInNight ==
    /\ get_altitude(cache.coordinates, Instant(Midnight(call.date))) < -18 * Degree
    /\ get_altitude(cache.coordinates, Instant(Midnight(call.date)) + DayUnits)
          < -18 * Degree

\* what does hold: the order of C21 for a day that begins and ends in the night
TwilightEventsOrderedFromNight ==
    (call.op = "get_twilight_times" /\ Returned /\ DayBeginsInNight
        /\ AllDefined(EventsInDayOrder(ret[1])))
    => StrictlyOrdered(EventsInDayOrder(ret[1]))

\* every event defined and in order, on a day that begins in the night
OrderedDayFromNight ==
    /\ call.op = "get_twilight_times" /\ Returned /\ DayBeginsInNight
    /\ AllDefined(EventsInDayOrder(ret[1]))
    /\ StrictlyOrdered(EventsInDayOrder(ret[1]))


\* the sun is on the starting side of the target at the instant s and on or past
\* it a sample interval later
BracketsAt(coords, s, target_altitude, rising) ==
    IF rising
    THEN /\ get_altitude(coords, s) < target_altitude
         /\ get_altitude(coords, s + SampleInterval) >= target_altitude
    ELSE /\ get_altitude(coords, s) > target_altitude
         /\ get_altitude(coords, s + SampleInterval) <= target_altitude

\* no pair of consecutive 15-minute samples of the day of `date` brackets the
\* target in the direction asked for
NoBracket(coords, date, target_altitude, rising) ==
    \A k \in 0..(DayUnits \div SampleInterval - 1) :
        ~BracketsAt(coords, Instant(Midnight(date)) + k * SampleInterval,
                    target_altitude, rising)

\* the field of a TwilightTimes found by the search for target and direction
FieldOf(tw, target_altitude, rising) ==
    CASE target_altitude = 0 -> IF rising THEN tw.sunrise ELSE tw.sunset
      [] target_altitude = -6 * Degree ->
            IF rising THEN tw.civil_twilight_start ELSE tw.civil_twilight_end
      [] target_altitude = -12 * Degree ->
            IF rising THEN tw.nautical_twilight_start ELSE tw.nautical_twilight_end
      [] target_altitude = -18 * Degree ->
            IF rising THEN tw.astronomical_twilight_start
            ELSE tw.astronomical_twilight_end

TwilightAltitudes == {0, -6 * Degree, -12 * Degree, -18 * Degree}

\* C22: when no pair of consecutive 15-minute samples of the searched day
\* brackets the target altitude in the requested direction,
\* get_sun_altitude_time and every field of get_twilight_times that depends on
\* the search is None, and no call raises; solar_noon is None whenever sunrise
\* or sunset is None.
NoBracketGivesNone ==
    /\ (call.op = "get_sun_altitude_time" /\ Returned
          /\ NoBracket(cache.coordinates, call.date, call.target_altitude,
                       call.rising))
       => ret[1] = NoTime
    /\ (call.op = "get_twilight_times" /\ Returned)
       => /\ \A target \in TwilightAltitudes, rising \in BOOLEAN :
                NoBracket(cache.coordinates, call.date, target, rising)
                => FieldOf(ret[1], target, rising) = NoTime
          /\ (ret[1].sunrise = NoTime \/ ret[1].sunset = NoTime)
                => ret[1].solar_noon = NoTime

\* the first day of the midnight sun: the sun rises and does not set before the
\* day ends; sunrise is a time, sunset and solar_noon are None
SunriseWithoutSunset ==
    /\ call.op = "get_twilight_times" /\ Returned
    /\ NoBracket(cache.coordinates, call.date, 0, FALSE)
    /\ ret[1].sunrise # NoTime
    /\ ret[1].sunset = NoTime
    /\ ret[1].solar_noon = NoTime

\* the midnight sun: nothing brackets the horizon and no field is a time
MidnightSunHasNoEvents ==
    /\ call.op = "get_twilight_times" /\ Returned
    /\ \A target \in TwilightAltitudes, rising \in BOOLEAN :
          /\ NoBracket(cache.coordinates, call.date, target, rising)
          /\ FieldOf(ret[1], target, rising) = NoTime
    /\ ret[1].solar_noon = NoTime

\* get_sun_altitude_time returned None on a day the sun stays below 20 degrees
AltitudeNeverReached ==
    /\ call.op = "get_sun_altitude_time" /\ Returned
    /\ call.target_altitude = 20 * Degree
    /\ NoBracket(cache.coordinates, call.date, call.target_altitude, call.rising)
    /\ ret[1] = NoTime


\* the event times of a TwilightTimes
EventTimes(tw) == [tw EXCEPT !.date = 0]

\* C30: after any sequence of calls on one AstronomyCalculator,
\* get_twilight_times(d) returns event times equal to those of the uncached
\* get_twilight_times(coordinates, d), also for a datetime that shares its
\* calendar date with an earlier argument and differs from it in time zone;
\* repeated calls with the same date return the cached object.
CachedTwilightAsUncached ==
    (call.op = "AstronomyCalculator.get_twilight_times" /\ Returned)
    => /\ EventTimes(ret[1])
             = EventTimes(get_twilight_times(cache.coordinates, call.date))
       /\ ret[1] = cache._twilight_cache[cache_key(call.date)][1]

\* the calculator was asked for a calendar date at UTC+12 after it had been
\* asked for that date in UTC: it returned the object cached for the UTC day,
\* whose sunrise is not the sunrise of the day that begins at midnight UTC+12
OtherZoneReceivedCached ==
    /\ call.op = "AstronomyCalculator.get_twilight_times" /\ Returned
    /\ call.date.utcoffset = 12 * HourUnits
    /\ ret[1].date.utcoffset = 0
    /\ ret[1].date.day = call.date.day
    /\ ret[1].sunrise # NoTime
    /\ ret[1].sunrise
          # get_twilight_times(cache.coordinates, call.date).sunrise

\* what does hold: the call returns the object the calculator holds for the
\* calendar date, whose event times are those of the uncached function for the
\* datetime of the first call with that calendar date
CachedTwilightOfFirstCall ==
    (call.op = "AstronomyCalculator.get_twilight_times" /\ Returned)
    => /\ ret[1] = cache._twilight_cache[cache_key(call.date)][1]
       /\ ret[1] = get_twilight_times(cache.coordinates, ret[1].date)
       /\ ret[1].date.utcoffset = call.date.utcoffset
             => EventTimes(ret[1])
                   = EventTimes(get_twilight_times(cache.coordinates, call.date))

\* a second call with the same calendar date and time zone, at another time of
\* day, received the cached object of the first
SameDayReceivedCached ==
    /\ call.op = "AstronomyCalculator.get_twilight_times" /\ Returned
    /\ ret[1].date # call.date
    /\ ret[1].date.utcoffset = call.date.utcoffset
    /\ ret[1].sunrise # NoTime

====
